---- MODULE Spec2Model ----
(***************************************************************************)
(* A model of envire::sam::ESAM (src/src/ESAM.cpp): the factor graph, the  *)
(* envire transform graph behind it, loop-closure candidate search, data   *)
(* association and the batch optimisation.                                 *)
(*                                                                         *)
(* Lengths are in centimetres and variances in 0.01 m^2, so that the       *)
(* margins 0.05, 0.4, 1.0 and the landmark variance 0.01 are integers.     *)
(* Of a 6x6 pose covariance the model keeps the diagonal of the position   *)
(* block; an orientation is 0 (identity) or 1 (half a turn about z).       *)
(***************************************************************************)
EXTENDS Integers, Sequences, FiniteSets, TLC

VARIABLES
    pose_key,                       \* this->pose_key
    landmark_key,                   \* this->landmark_key
    pose_idx,                       \* this->pose_idx
    landmark_idx,                   \* this->landmark_idx
    factor_graph,                   \* this->_factor_graph, a sequence of factors
    transform_graph,                \* this->_transform_graph: frames and edges
    marginals,                      \* this->marginals
    frames_to_search,               \* handles of the frames to search
    candidates_to_search,           \* handles proposed by the last containsFrames
    frame_to_search_landmarks,      \* source frame of the next data association
    candidate_to_search_landmarks,  \* container of the last containsFrames
    last                            \* the last call: its name, how it ended, what it saw

vars == <<pose_key, landmark_key, pose_idx, landmark_idx, factor_graph,
          transform_graph, marginals, frames_to_search, candidates_to_search,
          frame_to_search_landmarks, candidate_to_search_landmarks, last>>

-----------------------------------------------------------------------------
(* Bounds of the model *)

MaxPose == 2
MaxLandmark == 1
MaxFactors == 2
MaxItems == 1

\* Calls of addDeltaPoseFactor in the chain of between-pose insertions.
MaxDelta == 4

-----------------------------------------------------------------------------
(* Symbols *)

Symbol(c, j) == [chr |-> c, idx |-> j]

invalid_symbol == Symbol("u", 0)

\* An empty boost::shared_ptr<gtsam::Symbol>, as a moved-from handle is.
NullHandle == Symbol("", 0)

\* gtsam::Symbol ordering: by character, then by index.
ChrRank(c) == CASE c = "" -> 0 [] c = "l" -> 1 [] c = "u" -> 2 [] c = "x" -> 3 [] OTHER -> 4

SymbolGreater(a, b) ==
    \/ ChrRank(a.chr) > ChrRank(b.chr)
    \/ ChrRank(a.chr) = ChrRank(b.chr) /\ a.idx > b.idx

-----------------------------------------------------------------------------
(* Values *)

Zero3 == <<0, 0, 0>>

\* F applied to the value of e: a loop's next state is computed once and then
\* handed on, as an assignment does.
With(e, F(_)) == CHOOSE r \in {F(x) : x \in {e}} : TRUE

\* A for loop over lo..hi: Body takes the state before iteration i to the state
\* after it. The range is split in halves so that a long loop nests shallowly.
RECURSIVE ForRange(_, _, _, _)
ForRange(Body(_, _), acc, lo, hi) ==
    IF lo > hi THEN acc
    ELSE IF lo = hi THEN Body(acc, lo)
    ELSE With(ForRange(Body, acc, lo, (lo + hi) \div 2),
              LAMBDA half : ForRange(Body, half, ((lo + hi) \div 2) + 1, hi))

VecAdd(a, b) == <<a[1] + b[1], a[2] + b[2], a[3] + b[3]>>
VecSub(a, b) == <<a[1] - b[1], a[2] - b[2], a[3] - b[3]>>

\* Rotation by orientation q: identity, or half a turn about the z axis.
Rotate(q, p) == IF q = 0 THEN p ELSE <<0 - p[1], 0 - p[2], p[3]>>

\* base::TransformWithCovariance::getTransform() * p
TransformPoint(twc, p) == VecAdd(Rotate(twc.q, p), twc.t)

TWC(t, q, cov) == [t |-> t, q |-> q, cov |-> cov]

NoBox == [set |-> FALSE, min |-> Zero3, max |-> Zero3]

\* A PoseItem: the pose with covariance, and the boundary of the spatial item.
PoseItem(twc) == [data |-> twc, box |-> NoBox]

-----------------------------------------------------------------------------
(* The envire transform graph: a table of frames, each with typed item     *)
(* lists, and a list of directed transform edges.                          *)

EmptyFrame == [pose |-> <<>>, landmark |-> <<>>, cloud |-> <<>>,
               keypoints |-> <<>>, descriptors |-> <<>>]

EmptyGraph == [frames |-> <<>>, edges |-> <<>>]

FrameIds(tg) == DOMAIN tg.frames

HasFrame(tg, f) == f \in FrameIds(tg)

Items(tg, f, type) == tg.frames[f][type]

\* addFrame: creates an empty frame; a frame that exists is left as it is.
addFrame(tg, f) ==
    IF HasFrame(tg, f) THEN tg
    ELSE [tg EXCEPT !.frames = (f :> EmptyFrame) @@ @]

\* addTransform: records the directed edge, creating the frames it names.
addTransform(tg, a, b, tf) ==
    LET g == addFrame(addFrame(tg, a), b)
    IN  [g EXCEPT !.edges = Append(@, [from |-> a, to |-> b, tf |-> tf])]

\* The outcome of getItem<T>(f): the first item, or one of two failures.
getItemStatus(tg, f, type) ==
    IF ~HasFrame(tg, f) THEN "UnknownFrame"
    ELSE IF Items(tg, f, type) = <<>> THEN "NotFound"
    ELSE "ok"

getItem(tg, f, type) == Head(Items(tg, f, type))

containsItems(tg, f, type) == HasFrame(tg, f) /\ Items(tg, f, type) # <<>>

getItemCount(tg, f, type) == Len(Items(tg, f, type))

\* addItemToFrame on a frame that exists: the item is appended to its list.
addItemToFrame(tg, f, type, item) ==
    [tg EXCEPT !.frames[f][type] = Append(@, item)]

\* Overwrite of the first item of a type (setData / setBoundary on getItem's result).
setFirstItem(tg, f, type, item) ==
    [tg EXCEPT !.frames[f][type][1] = item]

-----------------------------------------------------------------------------
(* The ESAM object and its factor and value insertions *)

\* The object's fields as one record, so that a method is an operator on it.
Self == [pose_key |-> pose_key, landmark_key |-> landmark_key,
         pose_idx |-> pose_idx, landmark_idx |-> landmark_idx,
         factor_graph |-> factor_graph, transform_graph |-> transform_graph,
         marginals |-> marginals,
         frames_to_search |-> frames_to_search,
         candidates_to_search |-> candidates_to_search,
         frame_to_search_landmarks |-> frame_to_search_landmarks,
         candidate_to_search_landmarks |-> candidate_to_search_landmarks]

Noise(form, var) == [form |-> form, var |-> var]

Factor(kind, s1, s2, meas, rot, noise) ==
    [kind |-> kind, s1 |-> s1, s2 |-> s2, meas |-> meas, rot |-> rot, noise |-> noise]

Transform(t, rot, cov) == [t |-> t, rot |-> rot, cov |-> cov]

\* gtsam::Marginals not yet computed (the shared pointer is empty).
NoMarginals == [set |-> FALSE, cov |-> <<>>]

\* ESAM::init: counters at zero, both search symbols invalid, one prior on pose 0.
init(pose, noise, pk, lk) ==
    [pose_key |-> pk, landmark_key |-> lk, pose_idx |-> 0, landmark_idx |-> 0,
     factor_graph |-> <<Factor("Prior", Symbol(pk, 0), Symbol(pk, 0), pose.t, pose.q, noise)>>,
     transform_graph |-> EmptyGraph,
     marginals |-> NoMarginals,
     frames_to_search |-> <<>>, candidates_to_search |-> <<>>,
     frame_to_search_landmarks |-> invalid_symbol,
     candidate_to_search_landmarks |-> invalid_symbol]

\* insertPoseFactor, both overloads: the noise is a variance vector ("diag") or a
\* covariance matrix ("full"); the edge carries the same covariance.
\* A variant that records the edge in the opposite direction.
insertPoseFactorReversedEdge(s, symbol1, symbol2, delta_pose, noise) ==
    [s EXCEPT
        !.factor_graph = Append(@, Factor("Between", symbol1, symbol2,
                                          delta_pose.t, delta_pose.q, noise)),
        !.transform_graph = addTransform(@, symbol2, symbol1,
                                         Transform(delta_pose.t, delta_pose.q, noise.var))]

insertPoseFactor(s, symbol1, symbol2, delta_pose, noise) ==
    [s EXCEPT
        !.factor_graph = Append(@, Factor("Between", symbol1, symbol2,
                                          delta_pose.t, delta_pose.q, noise)),
        !.transform_graph = addTransform(@, symbol1, symbol2,
                                         Transform(delta_pose.t, delta_pose.q, noise.var))]

\* A variant that also reserves the landmark index it was given.
insertBearingRangeFactorReserving(s, p_symbol, l_symbol, bearing_angle, range_distance, var_measurement) ==
    [s EXCEPT
        !.landmark_idx = IF l_symbol.idx >= @ THEN l_symbol.idx + 1 ELSE @,
        !.factor_graph = Append(@, Factor("BearingRange", p_symbol, l_symbol,
                                          <<range_distance, 0, 0>>, bearing_angle,
                                          Noise("diag", var_measurement))),
        !.transform_graph = addTransform(@, p_symbol, l_symbol,
            Transform(<<range_distance, 0, 0>>, bearing_angle,
                      <<var_measurement[2], 0, 0, 0, 0, var_measurement[1]>>))]

\* insertBearingRangeFactor: var_measurement is <<bearing variance, range variance>>;
\* the edge has the range variance in slot (0,0) and the bearing variance in (5,5).
insertBearingRangeFactor(s, p_symbol, l_symbol, bearing_angle, range_distance, var_measurement) ==
    [s EXCEPT
        !.factor_graph = Append(@, Factor("BearingRange", p_symbol, l_symbol,
                                          <<range_distance, 0, 0>>, bearing_angle,
                                          Noise("diag", var_measurement))),
        !.transform_graph = addTransform(@, p_symbol, l_symbol,
            Transform(<<range_distance, 0, 0>>, bearing_angle,
                      <<var_measurement[2], 0, 0, 0, 0, var_measurement[1]>>))]

\* A variant that overwrites the newest factor instead of appending.
insertLandmarkFactorReplacing(s, p_symbol, l_symbol, measurement, var_measurement) ==
    [s EXCEPT
        !.factor_graph = [@ EXCEPT ![Len(@)] =
                              Factor("Landmark", p_symbol, l_symbol, measurement, 0,
                                     Noise("diag", var_measurement))],
        !.transform_graph = addTransform(@, p_symbol, l_symbol,
            Transform(measurement, 0,
                      <<var_measurement[1], var_measurement[2], var_measurement[3], 0, 0, 0>>))]

\* insertLandmarkFactor: the edge covariance has the variances in its position block.
insertLandmarkFactor(s, p_symbol, l_symbol, measurement, var_measurement) ==
    [s EXCEPT
        !.factor_graph = Append(@, Factor("Landmark", p_symbol, l_symbol, measurement, 0,
                                          Noise("diag", var_measurement))),
        !.transform_graph = addTransform(@, p_symbol, l_symbol,
            Transform(measurement, 0,
                      <<var_measurement[1], var_measurement[2], var_measurement[3], 0, 0, 0>>))]

\* addDeltaPoseFactor, all four overloads: the counter first, then the factor.
\* A variant that forgets to advance the counter.
addDeltaPoseFactorNoIncrement(s, delta_pose, noise) ==
    insertPoseFactor(s, Symbol(s.pose_key, s.pose_idx),
                     Symbol(s.pose_key, s.pose_idx + 1), delta_pose, noise)

addDeltaPoseFactor(s, delta_pose, noise) ==
    LET s1 == [s EXCEPT !.pose_idx = @ + 1]
    IN  insertPoseFactor(s1, Symbol(s1.pose_key, s1.pose_idx - 1),
                         Symbol(s1.pose_key, s1.pose_idx), delta_pose, noise)

addBearingRangeFactor(s, p_symbol, bearing_angle, range_distance, var_measurement) ==
    LET s1 == [s EXCEPT !.landmark_idx = @ + 1]
    IN  insertBearingRangeFactor(s1, p_symbol, Symbol(s1.landmark_key, s1.landmark_idx - 1),
                                 bearing_angle, range_distance, var_measurement)

\* A variant that hands out the index after the one it reserved.
addLandmarkFactorSkipping(s, p_symbol, measurement, var_measurement) ==
    LET s1 == [s EXCEPT !.landmark_idx = @ + 1]
    IN  insertLandmarkFactor(s1, p_symbol, Symbol(s1.landmark_key, s1.landmark_idx),
                             measurement, var_measurement)

addLandmarkFactor(s, p_symbol, measurement, var_measurement) ==
    LET s1 == [s EXCEPT !.landmark_idx = @ + 1]
    IN  insertLandmarkFactor(s1, p_symbol, Symbol(s1.landmark_key, s1.landmark_idx - 1),
                             measurement, var_measurement)

\* insertPoseValue: a new PoseItem appended to the frame; an unknown frame is
\* logged and the call returns.
insertPoseValue(s, symbol, pose_with_cov) ==
    IF HasFrame(s.transform_graph, symbol)
    THEN [s EXCEPT !.transform_graph = addItemToFrame(@, symbol, "pose", PoseItem(pose_with_cov))]
    ELSE s

insertLandmarkValue(s, symbol, measurement) ==
    IF HasFrame(s.transform_graph, symbol)
    THEN [s EXCEPT !.transform_graph = addItemToFrame(@, symbol, "landmark", measurement)]
    ELSE s

\* addPoseValue: the frame of the current pose index, then the value on it.
addPoseValue(s, pose_with_cov) ==
    LET frame_id == Symbol(s.pose_key, s.pose_idx)
        s1 == [s EXCEPT !.transform_graph = addFrame(@, frame_id)]
    IN  insertPoseValue(s1, frame_id, pose_with_cov)

\* addLandmarkValue: the frame of the current landmark index, then the value on it.
addLandmarkValue(s, measurement) ==
    LET frame_id == Symbol(s.landmark_key, s.landmark_idx)
        s1 == [s EXCEPT !.transform_graph = addFrame(@, frame_id)]
    IN  insertLandmarkValue(s1, frame_id, measurement)

\* getLastPoseValueAndId: the pose of the current pose index. An unknown frame
\* is caught and logged, and the handler throws a string to the caller; a
\* frame without a pose item raises an exception the handler does not catch.
getLastPoseValueAndId(s) ==
    LET frame_id == Symbol(s.pose_key, s.pose_idx)
    IN  IF getItemStatus(s.transform_graph, frame_id, "pose") = "ok"
        THEN [ret |-> "ok", frame |-> frame_id,
              value |-> getItem(s.transform_graph, frame_id, "pose").data]
        ELSE [ret |-> "threw", frame |-> frame_id, value |-> "none"]

\* getTransformPose: an unknown frame is caught and the default-constructed
\* transform is returned; a frame without a pose item is not caught.
getTransformPose(s, frame_id) ==
    CASE getItemStatus(s.transform_graph, frame_id, "pose") = "ok" ->
            [ret |-> "ok", frame |-> frame_id,
             value |-> getItem(s.transform_graph, frame_id, "pose").data]
      [] getItemStatus(s.transform_graph, frame_id, "pose") = "UnknownFrame" ->
            [ret |-> "returned", frame |-> frame_id, value |-> "default"]
      [] OTHER -> [ret |-> "threw", frame |-> frame_id, value |-> "none"]

\* getRbsPose: as getTransformPose, the value being position and orientation
\* with the two covariance blocks.
getRbsPose(s, frame_id) ==
    CASE getItemStatus(s.transform_graph, frame_id, "pose") = "ok" ->
            [ret |-> "ok", frame |-> frame_id,
             value |-> getItem(s.transform_graph, frame_id, "pose").data]
      [] getItemStatus(s.transform_graph, frame_id, "pose") = "UnknownFrame" ->
            [ret |-> "returned", frame |-> frame_id, value |-> "default"]
      [] OTHER -> [ret |-> "threw", frame |-> frame_id, value |-> "none"]

\* getPointCloud: the first cloud item of the frame; the handler of the unknown
\* frame throws a string, and a frame without a cloud is not caught.
getPointCloud(s, frame_id) ==
    IF getItemStatus(s.transform_graph, frame_id, "cloud") = "ok"
    THEN [ret |-> "ok", frame |-> frame_id,
          value |-> getItem(s.transform_graph, frame_id, "cloud")]
    ELSE [ret |-> "threw", frame |-> frame_id, value |-> "none"]

-----------------------------------------------------------------------------
(* The graph solver (gtsam's optimizer and marginals), as the black box it  *)
(* is to ESAM: it fails, or it returns a value and a covariance per key.    *)

SolverOutcomes == {"fail", "marginals_fail", "moved"}

MovedTranslation == <<10, 50, 110>>

\* The refined value of one key.
SolverValue(sol, initial) ==
    IF sol = "moved" THEN [initial EXCEPT !.t = MovedTranslation] ELSE initial

\* The marginal covariance the solver reports for a key.
marginalCovariance(sol, key) ==
    IF sol = "moved" THEN <<4, 4, 4>> ELSE <<1, 1, 1>>

\* The keys the factors refer to.
FactorKeys(fg) == {fg[k].s1 : k \in 1..Len(fg)} \cup {fg[k].s2 : k \in 1..Len(fg)}

\* The optimizer throws when a factor refers to a key without an initial value,
\* and may fail on the system itself.
SolverFails(sol, fg, initialEstimate) ==
    \/ sol = "fail"
    \/ ~(FactorKeys(fg) \subseteq DOMAIN initialEstimate)

-----------------------------------------------------------------------------
(* ESAM::optimize *)

\* The lookups of the two loops, in their order: <<symbol, item type>>.
EstimateLookups(s) ==
    [k \in 1..(s.pose_idx + 1 + s.landmark_idx) |->
        IF k <= s.pose_idx + 1
        THEN [key |-> Symbol(s.pose_key, k - 1), type |-> "pose"]
        ELSE [key |-> Symbol(s.landmark_key, k - s.pose_idx - 2), type |-> "landmark"]]

LookupFails(s, lk) == getItemStatus(s.transform_graph, lk.key, lk.type) # "ok"

\* Index of the first lookup that fails, 0 when none does.
FirstMissing(s) ==
    LET ls == EstimateLookups(s)
        bad == {k \in 1..Len(ls) : LookupFails(s, ls[k])}
    IN  IF bad = {} THEN 0 ELSE CHOOSE k \in bad : \A j \in bad : k <= j

\* The value read for one lookup: a pose keeps translation and orientation,
\* a landmark its position.
EstimateOf(s, lk) ==
    IF lk.type = "pose"
    THEN LET d == getItem(s.transform_graph, lk.key, "pose").data
         IN  [t |-> d.t, q |-> d.q]
    ELSE [t |-> getItem(s.transform_graph, lk.key, "landmark"), q |-> 0]

\* A variant of the initial estimate that leaves the landmarks out.
InitialEstimatePosesOnly(s) ==
    [key \in {Symbol(s.pose_key, i) : i \in 0..s.pose_idx} |->
        EstimateOf(s, [key |-> key, type |-> "pose"])]

InitialEstimate(s) ==
    LET ls == EstimateLookups(s)
    IN  [key \in {ls[k].key : k \in 1..Len(ls)} |->
            EstimateOf(s, ls[CHOOSE k \in 1..Len(ls) : ls[k].key = key])]

\* gtsam::Values iterates in key order: by character, then by index.
RECURSIVE KeyOrder(_)
KeyOrder(keys) ==
    IF keys = {} THEN <<>>
    ELSE LET m == CHOOSE a \in keys : \A b \in keys : a = b \/ SymbolGreater(b, a)
         IN  <<m>> \o KeyOrder(keys \ {m})

\* A variant of the write-back loop that stores the refined pose but keeps the
\* covariance the item had.
RECURSIVE WriteBackKeepingCov(_, _, _, _)
WriteBackKeepingCov(s, keys, result, sol) ==
    IF keys = <<>> THEN [s |-> s, ret |-> "ok"]
    ELSE
      LET frame_id == Head(keys)
      IN  IF frame_id.chr = s.pose_key THEN
              LET item == getItem(s.transform_graph, frame_id, "pose")
                  data == TWC(result[frame_id].t, result[frame_id].q, item.data.cov)
                  s1 == [s EXCEPT !.transform_graph =
                            setFirstItem(@, frame_id, "pose", [item EXCEPT !.data = data])]
              IN  With(s1, LAMBDA next : WriteBackKeepingCov(next, Tail(keys), result, sol))
          ELSE
              LET s1 == [s EXCEPT !.transform_graph =
                            setFirstItem(@, frame_id, "landmark", result[frame_id].t)]
              IN  With(s1, LAMBDA next : WriteBackKeepingCov(next, Tail(keys), result, sol))

\* The write-back loop over the result: the first item of each frame is
\* overwritten; a failed lookup ends the loop.
RECURSIVE WriteBack(_, _, _, _)
WriteBack(s, keys, result, sol) ==
    IF keys = <<>> THEN [s |-> s, ret |-> "ok"]
    ELSE
      LET frame_id == Head(keys)
          type == IF frame_id.chr = s.pose_key THEN "pose"
                  ELSE IF frame_id.chr = s.landmark_key THEN "landmark" ELSE "none"
          status == IF type = "none" THEN "ok"
                    ELSE getItemStatus(s.transform_graph, frame_id, type)
      IN  IF status = "UnknownFrame" THEN [s |-> s, ret |-> "returned"]
          ELSE IF status = "NotFound" THEN [s |-> s, ret |-> "threw"]
          ELSE IF type = "pose" THEN
              LET item == getItem(s.transform_graph, frame_id, "pose")
                  data == TWC(result[frame_id].t, result[frame_id].q,
                              marginalCovariance(sol, frame_id))
                  s1 == [s EXCEPT !.transform_graph =
                            setFirstItem(@, frame_id, "pose", [item EXCEPT !.data = data])]
              IN  With(s1, LAMBDA next : WriteBack(next, Tail(keys), result, sol))
          ELSE IF type = "landmark" THEN
              LET s1 == [s EXCEPT !.transform_graph =
                            setFirstItem(@, frame_id, "landmark", result[frame_id].t)]
              IN  With(s1, LAMBDA next : WriteBack(next, Tail(keys), result, sol))
          ELSE WriteBack(s, Tail(keys), result, sol)

NoResult == <<>>

\* A variant that drops the stored marginals before the new ones are built.
SolveAndStoreResetFirst(s, sol, initialEstimate) ==
    IF SolverFails(sol, s.factor_graph, initialEstimate)
    THEN [s |-> s, ret |-> "threw", solver |-> TRUE, result |-> NoResult,
          initial |-> initialEstimate]
    ELSE IF sol = "marginals_fail"
    THEN [s |-> [s EXCEPT !.marginals = NoMarginals], ret |-> "threw",
          solver |-> TRUE, result |-> NoResult, initial |-> initialEstimate]
    ELSE
      LET result == [key \in DOMAIN initialEstimate |-> SolverValue(sol, initialEstimate[key])]
          s1 == [s EXCEPT !.marginals =
                    [set |-> TRUE,
                     cov |-> [key \in DOMAIN result |-> marginalCovariance(sol, key)]]]
          wb == WriteBack(s1, KeyOrder(DOMAIN result), result, sol)
      IN  [s |-> wb.s, ret |-> wb.ret, solver |-> TRUE, result |-> result,
           initial |-> initialEstimate]

\* The second half of optimize(): the optimizer, the marginals, the write-back.
\* An exception of the optimizer or of the marginals' construction leaves the
\* call before anything is stored.
SolveAndStore(s, sol, initialEstimate) ==
    IF SolverFails(sol, s.factor_graph, initialEstimate) \/ sol = "marginals_fail"
    THEN [s |-> s, ret |-> "threw", solver |-> TRUE, result |-> NoResult,
          initial |-> initialEstimate]
    ELSE
      LET result == [key \in DOMAIN initialEstimate |-> SolverValue(sol, initialEstimate[key])]
          s1 == [s EXCEPT !.marginals =
                    [set |-> TRUE,
                     cov |-> [key \in DOMAIN result |-> marginalCovariance(sol, key)]]]
          wb == WriteBack(s1, KeyOrder(DOMAIN result), result, sol)
      IN  [s |-> wb.s, ret |-> wb.ret, solver |-> TRUE, result |-> result,
           initial |-> initialEstimate]

\* optimize(): the outcome is the object after the call, how the call ended
\* ("ok", "returned" early, or "threw"), whether the solver ran, the initial
\* estimate it was given, and its result.
\* A missing frame is caught and the call returns; a frame without the item
\* raises an exception that the handler does not catch.
optimize(s, sol) ==
    LET ls == EstimateLookups(s)
        miss == FirstMissing(s)
        \* With equal key characters the first landmark insert finds its key taken.
        duplicate == /\ s.pose_key = s.landmark_key /\ s.landmark_idx > 0
                     /\ (miss = 0 \/ miss > s.pose_idx + 2)
    IN  IF ~duplicate /\ miss # 0
           /\ getItemStatus(s.transform_graph, ls[miss].key, ls[miss].type) = "UnknownFrame"
        THEN [s |-> s, ret |-> "returned", solver |-> FALSE, result |-> NoResult,
              initial |-> NoResult]
        ELSE IF miss # 0 \/ duplicate
        THEN [s |-> s, ret |-> "threw", solver |-> FALSE, result |-> NoResult,
              initial |-> NoResult]
        ELSE SolveAndStore(s, sol, InitialEstimate(s))

-----------------------------------------------------------------------------
(* Loop-closure candidate search *)

MarginX == 5
MarginY == 40
MarginZ == 100

Margins == <<MarginX, MarginY, MarginZ>>

Min2(a, b) == IF a < b THEN a ELSE b
Max2(a, b) == IF a > b THEN a ELSE b

\* AlignedBoundingBox after extend(front_limit) and extend(rear_limit).
BoxOf(front_limit, rear_limit) ==
    [set |-> TRUE,
     min |-> [i \in 1..3 |-> Min2(front_limit[i], rear_limit[i])],
     max |-> [i \in 1..3 |-> Max2(front_limit[i], rear_limit[i])]]

\* The two limits after the loop that pushes them apart by the margins.
FrontLimit(current_t, prev_t, std_current) ==
    [i \in 1..3 |-> IF current_t[i] > prev_t[i] THEN current_t[i] + std_current[i]
                    ELSE current_t[i] - std_current[i]]

RearLimit(current_t, prev_t, std_prev) ==
    [i \in 1..3 |-> IF current_t[i] > prev_t[i] THEN prev_t[i] - std_prev[i]
                    ELSE prev_t[i] + std_prev[i]]

\* A variant that puts the box on the newest frame.
computeAlignedBoundingBoxOnNewest(s) ==
    IF s.pose_idx = 0 THEN [s |-> s, frame |-> invalid_symbol, ret |-> "ok"]
    ELSE
      LET prev_frame_id == Symbol(s.pose_key, s.pose_idx - 1)
          current_frame_id == Symbol(s.pose_key, s.pose_idx)
      IN  IF \/ getItemStatus(s.transform_graph, prev_frame_id, "pose") # "ok"
             \/ getItemStatus(s.transform_graph, current_frame_id, "pose") # "ok"
          THEN [s |-> s, frame |-> invalid_symbol, ret |-> "threw"]
          ELSE
            LET current_pose_item == getItem(s.transform_graph, current_frame_id, "pose")
                current_pose == current_pose_item.data
                front_limit == FrontLimit(current_pose.t, current_pose.t, Margins)
                rear_limit == RearLimit(current_pose.t, current_pose.t, Margins)
                boxed == [current_pose_item EXCEPT !.box = BoxOf(front_limit, rear_limit)]
            IN  [s |-> [s EXCEPT !.transform_graph =
                           setFirstItem(@, current_frame_id, "pose", boxed)],
                 frame |-> prev_frame_id, ret |-> "ok"]

\* computeAlignedBoundingBox: nothing while there is one pose; otherwise the box
\* goes on the previous frame's pose item. Both limits start from the pose read
\* from the previous frame's item. A failed lookup is not caught here.
computeAlignedBoundingBox(s) ==
    IF s.pose_idx = 0 THEN [s |-> s, frame |-> invalid_symbol, ret |-> "ok"]
    ELSE
      LET prev_frame_id == Symbol(s.pose_key, s.pose_idx - 1)
          current_frame_id == Symbol(s.pose_key, s.pose_idx)
      IN  IF \/ getItemStatus(s.transform_graph, prev_frame_id, "pose") # "ok"
             \/ getItemStatus(s.transform_graph, current_frame_id, "pose") # "ok"
          THEN [s |-> s, frame |-> invalid_symbol, ret |-> "threw"]
          ELSE
            LET prev_pose_item == getItem(s.transform_graph, prev_frame_id, "pose")
                prev_pose == prev_pose_item.data
                current_pose == prev_pose_item.data
                front_limit == FrontLimit(current_pose.t, prev_pose.t, Margins)
                rear_limit == RearLimit(current_pose.t, prev_pose.t, Margins)
                boxed == [prev_pose_item EXCEPT !.box = BoxOf(front_limit, rear_limit)]
            IN  [s |-> [s EXCEPT !.transform_graph =
                           setFirstItem(@, prev_frame_id, "pose", boxed)],
                 frame |-> prev_frame_id, ret |-> "ok"]

\* SpatialItem::contains: the point lies in the box, borders included.
BoxContains(box, p) ==
    box.set /\ \A i \in 1..3 : box.min[i] <= p[i] /\ p[i] <= box.max[i]

\* SpatialItem::contains(centerOfBoundary()) of another item, compared doubled so
\* that the centre (min + max) / 2 needs no division.
BoxContainsCenter(box, other) ==
    box.set /\ \A i \in 1..3 : /\ 2 * box.min[i] <= other.min[i] + other.max[i]
                               /\ other.min[i] + other.max[i] <= 2 * box.max[i]

\* A variant that never looks at the query's box.
containsTranslationOnly(s, container_frame, query_frame) ==
    IF \/ getItemStatus(s.transform_graph, container_frame, "pose") # "ok"
       \/ getItemStatus(s.transform_graph, query_frame, "pose") # "ok"
    THEN [ret |-> "threw", value |-> FALSE]
    ELSE
      LET pose_item1 == getItem(s.transform_graph, container_frame, "pose")
          pose_item2 == getItem(s.transform_graph, query_frame, "pose")
      IN  IF ~pose_item1.box.set THEN [ret |-> "threw", value |-> FALSE]
          ELSE [ret |-> "ok", value |-> BoxContains(pose_item1.box, pose_item2.data.t)]

\* contains(container, query): [ret, value]. The query's box centre is read only
\* when the container's symbol is the greater one and the query's translation is
\* outside; an item without a boundary has no centre to give.
contains(s, container_frame, query_frame) ==
    IF \/ getItemStatus(s.transform_graph, container_frame, "pose") # "ok"
       \/ getItemStatus(s.transform_graph, query_frame, "pose") # "ok"
    THEN [ret |-> "threw", value |-> FALSE]
    ELSE
      LET pose_item1 == getItem(s.transform_graph, container_frame, "pose")
          pose_item2 == getItem(s.transform_graph, query_frame, "pose")
      IN  IF ~pose_item1.box.set THEN [ret |-> "threw", value |-> FALSE]
          ELSE IF SymbolGreater(container_frame, query_frame)
          THEN IF BoxContains(pose_item1.box, pose_item2.data.t)
               THEN [ret |-> "ok", value |-> TRUE]
               ELSE IF ~pose_item2.box.set THEN [ret |-> "threw", value |-> FALSE]
               ELSE [ret |-> "ok", value |-> BoxContainsCenter(pose_item1.box, pose_item2.box)]
          ELSE [ret |-> "ok", value |-> BoxContains(pose_item1.box, pose_item2.data.t)]

\* std::fabs(container->index() - target->index()) > 10.00 on 64-bit unsigned indices.
\* The difference wraps around 2^64 when the target's index is the greater one.
IndexDistanceOver10(cidx, tidx) == IF cidx >= tidx THEN cidx - tidx > 10 ELSE TRUE

\* One iteration of the loop of containsFrames, for target index i. A handle
\* pushed with std::move is empty afterwards, and the code reads its index
\* again: at the distance check after every push, and at the band check and its
\* log line. Such a read is undefined: ub marks it, and g is the index value the
\* read yields when the run goes on. An exception of contains() ends the loop.
containsFramesStep(s, container_frame_id, acc, i, g) ==
    LET target_frame_id == Symbol(s.pose_key, i)
    IN  IF acc.ret = "threw" \/ target_frame_id = container_frame_id THEN acc
        ELSE With(contains(s, container_frame_id, target_frame_id), LAMBDA c :
          LET handle1 == IF c.value THEN NullHandle ELSE target_frame_id
              list1 == IF c.value THEN Append(acc.list, target_frame_id) ELSE acc.list
              flagged1 == IF c.value /\ IndexDistanceOver10(container_frame_id.idx, g)
                          THEN Append(acc.flagged, target_frame_id) ELSE acc.flagged
              inBand == container_frame_id.idx > 88 /\ container_frame_id.idx < 91
              tidx == IF handle1 = NullHandle THEN g ELSE handle1.idx
              forced == inBand /\ tidx > 18 /\ tidx < 22
              list2 == IF forced THEN Append(list1, handle1) ELSE list1
              ub == c.value \/ forced
          IN  IF c.ret = "threw"
              THEN [acc EXCEPT !.ret = "threw"]
              ELSE [list |-> list2, flagged |-> flagged1,
                    ub |-> acc.ub \/ ub, ret |-> "ok"])

\* containsFrames: the list is cleared, then every pose index 0..pose_idx in turn.
containsFrames(s, container_frame_id, g) ==
    ForRange(LAMBDA acc, i : containsFramesStep(s, container_frame_id, acc, i, g),
             [list |-> <<>>, flagged |-> <<>>, ub |-> FALSE, ret |-> "ok"],
             0, s.pose_idx)

-----------------------------------------------------------------------------
(* Keypoints and data association *)

\* this->landmark_var, 0.01 on each axis.
landmark_var == <<1, 1, 1>>

\* pushPointCloud: the filtered cloud is merged into the frame's cloud item, or
\* becomes it. The frame of the current pose must exist.
pushPointCloud(s) ==
    LET frame_id == Symbol(s.pose_key, s.pose_idx)
    IN  IF ~HasFrame(s.transform_graph, frame_id) THEN [s |-> s, ret |-> "threw"]
        ELSE IF getItemCount(s.transform_graph, frame_id, "cloud") > 0
        THEN [s |-> s, ret |-> "ok"]
        ELSE [s |-> [s EXCEPT !.transform_graph = addItemToFrame(@, frame_id, "cloud", "cloud")],
              ret |-> "ok"]

\* keypointsPointCloud: the detected keypoints and one descriptor per keypoint
\* are added to the frame as new items, unless no keypoint was detected.
keypointsPointCloud(s, frame_id, keypoints) ==
    IF Len(keypoints) > 0
    THEN [s EXCEPT !.transform_graph =
            addItemToFrame(addItemToFrame(@, frame_id, "keypoints", keypoints),
                           frame_id, "descriptors", Len(keypoints))]
    ELSE s

\* A variant that hands the candidates on before it knows the frame is usable.
computeKeypointsMovingFirst(s, keypoints, g) ==
    With(computeAlignedBoundingBox(s), LAMBDA bb :
      LET frame_id == bb.frame
          moved == [bb.s EXCEPT !.frames_to_search = bb.s.candidates_to_search,
                                !.frame_to_search_landmarks = bb.s.candidate_to_search_landmarks]
      IN  IF bb.ret = "threw" THEN [s |-> s, ret |-> "threw", ub |-> FALSE]
          ELSE IF frame_id # invalid_symbol /\ containsItems(bb.s.transform_graph, frame_id, "cloud")
          THEN
            With(keypointsPointCloud(moved, frame_id, keypoints), LAMBDA s2 :
              With(containsFrames(s2, frame_id, g), LAMBDA cf :
                LET s3 == [s2 EXCEPT !.candidates_to_search = cf.list]
                IN  IF cf.ret = "threw" THEN [s |-> s3, ret |-> "threw", ub |-> cf.ub]
                    ELSE [s |-> [s3 EXCEPT !.candidate_to_search_landmarks = frame_id],
                          ret |-> "ok", ub |-> cf.ub]))
          ELSE [s |-> moved, ret |-> "ok", ub |-> FALSE])

\* computeKeypoints: [s, ret, ub]. The candidate list is written in place, so a
\* lookup that fails inside containsFrames leaves the part built so far.
computeKeypoints(s, keypoints, g) ==
    With(computeAlignedBoundingBox(s), LAMBDA bb :
      LET frame_id == bb.frame
      IN  IF bb.ret = "threw" THEN [s |-> s, ret |-> "threw", ub |-> FALSE]
          ELSE IF frame_id # invalid_symbol /\ containsItems(bb.s.transform_graph, frame_id, "cloud")
          THEN
            LET s1 == keypointsPointCloud(bb.s, frame_id, keypoints)
            IN  With([s1 EXCEPT !.frames_to_search = bb.s.candidates_to_search,
                                !.frame_to_search_landmarks = bb.s.candidate_to_search_landmarks],
                     LAMBDA s2 :
                       With(containsFrames(s2, frame_id, g), LAMBDA cf :
                         LET s3 == [s2 EXCEPT !.candidates_to_search = cf.list]
                         IN  IF cf.ret = "threw" THEN [s |-> s3, ret |-> "threw", ub |-> cf.ub]
                             ELSE [s |-> [s3 EXCEPT !.candidate_to_search_landmarks = frame_id],
                                   ret |-> "ok", ub |-> cf.ub]))
          ELSE [s |-> bb.s, ret |-> "ok", ub |-> FALSE])

\* Insertion sort, for std::sort on the scores.
RECURSIVE InsertSorted(_, _)
InsertSorted(x, sorted) ==
    IF sorted = <<>> THEN <<x>>
    ELSE IF x <= Head(sorted) THEN <<x>> \o sorted
    ELSE <<Head(sorted)>> \o InsertSorted(x, Tail(sorted))

RECURSIVE Sort(_)
Sort(seq) == IF seq = <<>> THEN <<>> ELSE InsertSorted(Head(seq), Sort(Tail(seq)))

\* temp[temp.size()/2.0] on the sorted scores (indices from 0 in the code).
MedianScore(k_squared_distances) ==
    Sort(k_squared_distances)[(Len(k_squared_distances) \div 2) + 1]

\* A variant that also rejects a distance equal to the median.
ScoreRejectedAtMedian(distance, median_score) == distance >= median_score

\* percentage = 1.0
ScoreRejected(distance, median_score) == distance > median_score

Chi2Dof1 == 384
Chi2Dof2 == 599
Chi2Dof3 == 781
Chi2Dof4 == 949

\* acceptPointDistance on mahalanobis2 = num / den (den > 0), limits in hundredths.
acceptPointDistance(num, den, dof) ==
    CASE dof = 1 -> 100 * num < Chi2Dof1 * den
      [] dof = 2 -> 100 * num < Chi2Dof2 * den
      [] dof = 3 -> 100 * num < Chi2Dof3 * den
      [] dof = 4 -> 100 * num < Chi2Dof4 * den
      [] OTHER -> FALSE

\* innovation^T * add_cov^-1 * innovation for the diagonal add_cov, as a fraction:
\* the innovation is in centimetres and add_cov in 0.01 m^2 = 100 cm^2.
MahalanobisNum(innovation, add_cov) ==
    innovation[1] * innovation[1] * add_cov[2] * add_cov[3]
    + innovation[2] * innovation[2] * add_cov[1] * add_cov[3]
    + innovation[3] * innovation[3] * add_cov[1] * add_cov[2]

MahalanobisDen(add_cov) == 100 * add_cov[1] * add_cov[2] * add_cov[3]


\* A variant that gives both factors the source keypoint's offset.
CorrespondenceSourceOffsetTwice(acc, frame_id, it, i, j, source_keypoints, target_keypoints, k_squared_distances, median_score) ==
    LET s == acc.s
        source_pose == getItem(s.transform_graph, frame_id, "pose")
        p_source == source_keypoints[i]
        p_source_global == TransformPoint(source_pose.data, p_source)
        l_symbol == Symbol(s.landmark_key, s.landmark_idx)
    IN  IF ScoreRejected(k_squared_distances[i], median_score) THEN acc
        ELSE
          LET s1 == insertLandmarkFactor(s, frame_id, l_symbol, p_source, landmark_var)
              s2 == insertLandmarkFactor(s1, it, l_symbol, p_source, landmark_var)
              s3 == insertLandmarkValue(s2, l_symbol, p_source_global)
              s4 == [s3 EXCEPT !.landmark_idx = @ + 1]
          IN  [acc EXCEPT
                 !.s = s4,
                 !.found_landmarks = TRUE,
                 !.accepted = Append(@, [source |-> frame_id, target |-> it, i |-> i, j |-> j,
                                         distance |-> k_squared_distances[i],
                                         median_score |-> median_score,
                                         num |-> 0, den |-> 1,
                                         landmark |-> l_symbol,
                                         global |-> p_source_global])]

\* The correspondences of one source keypoint i with one candidate: the factor
\* pair, the landmark value and the counter, unless the score is rejected. The
\* Mahalanobis distance is computed and logged; nothing tests it.
Correspondence(acc, frame_id, it, i, j, source_keypoints, target_keypoints, k_squared_distances, median_score) ==
    LET s == acc.s
        source_pose == getItem(s.transform_graph, frame_id, "pose")
        target_pose == getItem(s.transform_graph, it, "pose")
        p_source == source_keypoints[i]
        p_target == target_keypoints[j]
        p_source_global == TransformPoint(source_pose.data, p_source)
        p_target_global == TransformPoint(target_pose.data, p_target)
        innovation == VecSub(p_source_global, p_target_global)
        add_cov == VecAdd(source_pose.data.cov, landmark_var)
        l_symbol == Symbol(s.landmark_key, s.landmark_idx)
    IN  IF ScoreRejected(k_squared_distances[i], median_score) THEN acc
        ELSE
          LET s1 == insertLandmarkFactor(s, frame_id, l_symbol, p_source, landmark_var)
              s2 == insertLandmarkFactor(s1, it, l_symbol, p_target, landmark_var)
              s3 == insertLandmarkValue(s2, l_symbol, p_source_global)
              s4 == [s3 EXCEPT !.landmark_idx = @ + 1]
          IN  [acc EXCEPT
                 !.s = s4,
                 !.found_landmarks = TRUE,
                 !.accepted = Append(@, [source |-> frame_id, target |-> it, i |-> i, j |-> j,
                                         distance |-> k_squared_distances[i],
                                         median_score |-> median_score,
                                         num |-> MahalanobisNum(innovation, add_cov),
                                         den |-> MahalanobisDen(add_cov),
                                         landmark |-> l_symbol,
                                         global |-> p_source_global])]

RECURSIVE KeypointLoop(_, _, _, _, _, _, _, _, _)
KeypointLoop(acc, frame_id, it, i, source2target, source_keypoints, target_keypoints, k_squared_distances, median_score) ==
    IF i > Len(source_keypoints) THEN acc
    ELSE With(Correspondence(acc, frame_id, it, i, source2target[i], source_keypoints,
                             target_keypoints, k_squared_distances, median_score),
              LAMBDA next : KeypointLoop(next, frame_id, it, i + 1, source2target,
                                         source_keypoints, target_keypoints,
                                         k_squared_distances, median_score))

\* The nearest-neighbour query's answer for a target with n descriptors: the
\* match pattern picks the index, never beyond the target's descriptors.
Source2Target(pattern, count, n) ==
    [i \in 1..count |-> IF pattern = "first" THEN 1 ELSE Min2(i, n)]

\* The loop over the frames to search, from position c on.
RECURSIVE CandidateLoop(_, _, _, _, _, _)
CandidateLoop(acc, frame_id, frames, c, source_keypoints, nn) ==
    IF c > Len(frames) THEN acc
    ELSE
      LET it == frames[c]
          tg == acc.s.transform_graph
      IN  IF it = NullHandle
          THEN With([acc EXCEPT !.ub = TRUE],
                    LAMBDA next : CandidateLoop(next, frame_id, frames, c + 1,
                                                source_keypoints, nn))
          ELSE IF containsItems(tg, it, "keypoints") /\ containsItems(tg, it, "descriptors")
          THEN
            IF getItemStatus(tg, it, "pose") # "ok" THEN [acc EXCEPT !.ret = "threw"]
            ELSE
              LET target_keypoints == getItem(tg, it, "keypoints")
                  count == Len(source_keypoints)
                  k_squared_distances == SubSeq(nn.distances, 1, count)
                  source2target == Source2Target(nn.pattern, count, getItem(tg, it, "descriptors"))
                  median_score == MedianScore(k_squared_distances)
                  acc1 == KeypointLoop(acc, frame_id, it, 1, source2target, source_keypoints,
                                       target_keypoints, k_squared_distances, median_score)
              IN  With([acc1 EXCEPT !.scores = Append(@,
                            [target |-> it, distances |-> k_squared_distances,
                             median_score |-> median_score])],
                       LAMBDA next : CandidateLoop(next, frame_id, frames, c + 1,
                                                   source_keypoints, nn))
          ELSE CandidateLoop(acc, frame_id, frames, c + 1, source_keypoints, nn)

NoRun(s) == [s |-> s, ret |-> "ok", ub |-> FALSE, found_landmarks |-> FALSE,
             accepted |-> <<>>, scores |-> <<>>, optimizes |-> 0, solver |-> FALSE,
             result |-> NoResult, initial |-> NoResult]

\* A variant that gives up the search at the first candidate without features.
featuresCorrespondencesStoppingAtGap(s, frame_id, frames, nn, sol) ==
    IF \/ ~containsItems(s.transform_graph, frame_id, "keypoints")
       \/ ~containsItems(s.transform_graph, frame_id, "descriptors")
    THEN NoRun(s)
    ELSE IF getItemStatus(s.transform_graph, frame_id, "pose") # "ok"
    THEN [NoRun(s) EXCEPT !.ret = "threw"]
    ELSE
      LET source_keypoints == getItem(s.transform_graph, frame_id, "keypoints")
          gap == {k \in 1..Len(frames) :
                    \/ ~containsItems(s.transform_graph, frames[k], "keypoints")
                    \/ ~containsItems(s.transform_graph, frames[k], "descriptors")}
          upto == IF gap = {} THEN Len(frames)
                  ELSE (CHOOSE k \in gap : \A j \in gap : k <= j) - 1
      IN  With(CandidateLoop(NoRun(s), frame_id, SubSeq(frames, 1, upto), 1,
                             source_keypoints, nn),
               LAMBDA run :
                 IF run.ret = "threw" \/ ~run.found_landmarks THEN run
                 ELSE With(optimize(run.s, sol),
                           LAMBDA o : [run EXCEPT !.s = o.s, !.ret = o.ret, !.optimizes = 1,
                                                  !.solver = o.solver, !.result = o.result,
                                                  !.initial = o.initial]))

\* A variant that runs optimize() at the end of every run, landmark or not.
featuresCorrespondencesAlwaysOptimizing(s, frame_id, frames, nn, sol) ==
    IF \/ ~containsItems(s.transform_graph, frame_id, "keypoints")
       \/ ~containsItems(s.transform_graph, frame_id, "descriptors")
    THEN NoRun(s)
    ELSE IF getItemStatus(s.transform_graph, frame_id, "pose") # "ok"
    THEN [NoRun(s) EXCEPT !.ret = "threw"]
    ELSE
      LET source_keypoints == getItem(s.transform_graph, frame_id, "keypoints")
      IN  With(CandidateLoop(NoRun(s), frame_id, frames, 1, source_keypoints, nn),
               LAMBDA run :
                 IF run.ret = "threw" THEN run
                 ELSE With(optimize(run.s, sol),
                           LAMBDA o : [run EXCEPT !.s = o.s, !.ret = o.ret, !.optimizes = 1,
                                                  !.solver = o.solver, !.result = o.result,
                                                  !.initial = o.initial]))

\* featuresCorrespondences: nothing without the source's keypoints and
\* descriptors; otherwise every frame to search in turn, and one optimize() at
\* the end when a landmark was found.
featuresCorrespondences(s, frame_id, frames, nn, sol) ==
    IF \/ ~containsItems(s.transform_graph, frame_id, "keypoints")
       \/ ~containsItems(s.transform_graph, frame_id, "descriptors")
    THEN NoRun(s)
    ELSE IF getItemStatus(s.transform_graph, frame_id, "pose") # "ok"
    THEN [NoRun(s) EXCEPT !.ret = "threw"]
    ELSE
      LET source_keypoints == getItem(s.transform_graph, frame_id, "keypoints")
      IN  With(CandidateLoop(NoRun(s), frame_id, frames, 1, source_keypoints, nn),
               LAMBDA run :
                 IF run.ret = "threw" \/ ~run.found_landmarks THEN run
                 ELSE With(optimize(run.s, sol),
                           LAMBDA o : [run EXCEPT !.s = o.s, !.ret = o.ret, !.optimizes = 1,
                                                  !.solver = o.solver, !.result = o.result,
                                                  !.initial = o.initial]))

\* detectLandmarks: data association for the stored source frame, when there
\* are frames to search and the source frame is valid.
detectLandmarks(s, nn, sol) ==
    IF Len(s.frames_to_search) > 0 /\ s.frame_to_search_landmarks # invalid_symbol
    THEN featuresCorrespondences(s, s.frame_to_search_landmarks, s.frames_to_search, nn, sol)
    ELSE NoRun(s)

-----------------------------------------------------------------------------
(* The inputs the calls are made with *)

Var6 == <<1, 1, 1, 1, 1, 1>>

DiagNoise == Noise("diag", Var6)
FullNoise == Noise("full", Var6)

Cov3 == <<1, 1, 1>>

Origin == TWC(Zero3, 0, Cov3)
Far == TWC(<<300, 0, 0>>, 1, Cov3)

PoseInputs == {Origin}
WidePoseInputs == {Origin, Far}

DeltaInputs == {[t |-> <<300, 0, 0>>, q |-> 1]}
WideDeltaInputs == {[t |-> <<300, 0, 0>>, q |-> 1], [t |-> <<0, 20, 0>>, q |-> 0]}

LandmarkInputs == {<<200, 0, 0>>}

KeypointInputs == {<<>>, <<<<100, 0, 0>>>>}

\* What the nearest-neighbour search answers: a match pattern and the squared
\* distances of the source descriptors.
NNInputs == {[pattern |-> "first", distances |-> <<1>>]}

\* The value an undefined read of an index yields when the run goes on.
GarbageIndex == {0, 20}

-----------------------------------------------------------------------------
(* The state machine: one action per public call *)

Log(op, ret) == [op |-> op, ret |-> ret, solver |-> FALSE, optimizes |-> 0,
                 accepted |-> <<>>, scores |-> <<>>, result |-> NoResult,
                 initial |-> NoResult, sol |-> "none", frame |-> invalid_symbol,
                 query |-> invalid_symbol, value |-> FALSE]

Apply(s) ==
    /\ pose_key' = s.pose_key
    /\ landmark_key' = s.landmark_key
    /\ pose_idx' = s.pose_idx
    /\ landmark_idx' = s.landmark_idx
    /\ factor_graph' = s.factor_graph
    /\ transform_graph' = s.transform_graph
    /\ marginals' = s.marginals
    /\ frames_to_search' = s.frames_to_search
    /\ candidates_to_search' = s.candidates_to_search
    /\ frame_to_search_landmarks' = s.frame_to_search_landmarks
    /\ candidate_to_search_landmarks' = s.candidate_to_search_landmarks

\* A crashed process makes no further call.
Alive == last.ret # "crashed"

PoseSymbol(i) == Symbol(pose_key, i)
LandmarkSymbol(i) == Symbol(landmark_key, i)

ItemsWithin(s) ==
    \A f \in FrameIds(s.transform_graph) :
        /\ Len(Items(s.transform_graph, f, "pose")) <= MaxItems
        /\ Len(Items(s.transform_graph, f, "landmark")) <= MaxItems
        /\ Len(Items(s.transform_graph, f, "keypoints")) <= MaxItems

\* The state after construction with the default keys.
Init ==
    \E s \in {init(Origin, FullNoise, "x", "l")} :
        /\ pose_key = s.pose_key
        /\ landmark_key = s.landmark_key
        /\ pose_idx = s.pose_idx
        /\ landmark_idx = s.landmark_idx
        /\ factor_graph = s.factor_graph
        /\ transform_graph = s.transform_graph
        /\ marginals = s.marginals
        /\ frames_to_search = s.frames_to_search
        /\ candidates_to_search = s.candidates_to_search
        /\ frame_to_search_landmarks = s.frame_to_search_landmarks
        /\ candidate_to_search_landmarks = s.candidate_to_search_landmarks
        /\ last = Log("init", "ok")

DoInsertPoseFactor ==
    /\ Alive /\ Len(factor_graph) < MaxFactors
    /\ \E b \in {1, MaxPose + 1}, delta \in DeltaInputs :
        /\ Apply(insertPoseFactor(Self, PoseSymbol(0), PoseSymbol(b), delta, FullNoise))
        /\ last' = Log("call", "ok")

DoInsertBearingRangeFactor ==
    /\ Alive /\ Len(factor_graph) < MaxFactors
    /\ Apply(insertBearingRangeFactor(Self, PoseSymbol(0), LandmarkSymbol(0), 1, 200, <<1, 2>>))
    /\ last' = Log("call", "ok")

DoInsertLandmarkFactor ==
    /\ Alive /\ Len(factor_graph) < MaxFactors
    /\ \E l \in {0, MaxLandmark}, m \in LandmarkInputs :
        /\ Apply(insertLandmarkFactor(Self, PoseSymbol(0), LandmarkSymbol(l), m, landmark_var))
        /\ last' = Log("call", "ok")

AddDeltaPoseFactorStep(deltas, noises, bound) ==
    /\ Alive /\ pose_idx < bound
    /\ \E delta \in deltas, noise \in noises :
        /\ Apply(addDeltaPoseFactor(Self, delta, noise))
        /\ last' = Log("call", "ok")

DoAddDeltaPoseFactor == AddDeltaPoseFactorStep(DeltaInputs, {DiagNoise}, MaxPose)

DoAddBearingRangeFactor ==
    /\ Alive /\ landmark_idx < MaxLandmark /\ Len(factor_graph) < MaxFactors
    /\ Apply(addBearingRangeFactor(Self, PoseSymbol(0), 1, 200, <<1, 2>>))
    /\ last' = Log("call", "ok")

DoAddLandmarkFactor ==
    /\ Alive /\ landmark_idx < MaxLandmark /\ Len(factor_graph) < MaxFactors
    /\ \E m \in LandmarkInputs :
        /\ Apply(addLandmarkFactor(Self, PoseSymbol(pose_idx), m, landmark_var))
        /\ last' = Log("call", "ok")

DoInsertPoseValue ==
    /\ Alive
    /\ \E i \in 0..MaxPose, twc \in PoseInputs :
        \E s \in {insertPoseValue(Self, PoseSymbol(i), twc)} :
            /\ ItemsWithin(s)
            /\ Apply(s)
            /\ last' = Log("call",
                           IF HasFrame(transform_graph, PoseSymbol(i)) THEN "ok" ELSE "returned")

DoInsertLandmarkValue ==
    /\ Alive
    /\ \E m \in LandmarkInputs :
        LET i == 0
            s == insertLandmarkValue(Self, LandmarkSymbol(i), m)
        IN  /\ ItemsWithin(s)
            /\ Apply(s)
            /\ last' = Log("call",
                           IF HasFrame(transform_graph, LandmarkSymbol(i)) THEN "ok" ELSE "returned")

AddPoseValueStep(poses) ==
    /\ Alive
    /\ \E twc \in poses :
        \E s \in {addPoseValue(Self, twc)} :
            /\ ItemsWithin(s)
            /\ Apply(s)
            /\ last' = Log("call", "ok")

DoAddPoseValue == AddPoseValueStep(PoseInputs)

DoAddLandmarkValue ==
    /\ Alive /\ landmark_idx <= MaxLandmark
    /\ \E m \in LandmarkInputs :
        \E s \in {addLandmarkValue(Self, m)} :
            /\ ItemsWithin(s)
            /\ Apply(s)
            /\ last' = Log("call", "ok")

OptimizeStep(outcomes) ==
    /\ Alive
    /\ \E sol \in outcomes :
        \E o \in {optimize(Self, sol)} :
            /\ Apply(o.s)
            /\ last' = [Log("optimize", o.ret) EXCEPT
                           !.solver = o.solver, !.optimizes = 1, !.result = o.result,
                           !.initial = o.initial,
                           !.sol = IF o.solver THEN sol ELSE "none"]

DoOptimize == OptimizeStep(SolverOutcomes)

DoPushPointCloud ==
    /\ Alive
    /\ \E o \in {pushPointCloud(Self)} :
           /\ Apply(o.s)
           /\ last' = Log("call", o.ret)

\* After an undefined read the process aborts, or it goes on with some value.
DoComputeKeypoints ==
    /\ Alive
    /\ \E keypoints \in KeypointInputs, g \in GarbageIndex, abort \in BOOLEAN :
        \E o \in {computeKeypoints(Self, keypoints, g)} :
            /\ ItemsWithin(o.s)
            /\ abort => o.ub
            /\ Apply(o.s)
            /\ last' = [Log("computeKeypoints", IF abort THEN "crashed" ELSE o.ret) EXCEPT
                           !.frame = o.s.candidate_to_search_landmarks]

\* The nearest-neighbour search answers with one squared distance per source
\* descriptor.
SourceDescriptors ==
    IF containsItems(transform_graph, frame_to_search_landmarks, "descriptors")
    THEN getItem(transform_graph, frame_to_search_landmarks, "descriptors")
    ELSE 1

DetectLandmarksStep(answers, outcomes, bound) ==
    /\ Alive
    /\ \E nn \in answers, sol \in outcomes, abort \in BOOLEAN :
        /\ Len(nn.distances) = SourceDescriptors
        /\ \E o \in {detectLandmarks(Self, nn, sol)} :
            /\ o.s.landmark_idx <= bound
            /\ abort => o.ub
            /\ Apply(o.s)
            /\ last' = [Log("detectLandmarks", IF abort THEN "crashed" ELSE o.ret) EXCEPT
                           !.solver = o.solver, !.optimizes = o.optimizes,
                           !.accepted = o.accepted, !.scores = o.scores,
                           !.result = o.result, !.initial = o.initial,
                           !.sol = IF o.solver THEN sol ELSE "none",
                           !.frame = frame_to_search_landmarks]

DoDetectLandmarks == DetectLandmarksStep(NNInputs, {"fail", "moved"}, MaxLandmark)

Next ==
    \/ DoInsertPoseFactor
    \/ DoInsertBearingRangeFactor
    \/ DoInsertLandmarkFactor
    \/ DoAddDeltaPoseFactor
    \/ DoAddBearingRangeFactor
    \/ DoAddLandmarkFactor
    \/ DoInsertPoseValue
    \/ DoInsertLandmarkValue
    \/ DoAddPoseValue
    \/ DoAddLandmarkValue
    \/ DoOptimize
    \/ DoPushPointCloud
    \/ DoComputeKeypoints
    \/ DoDetectLandmarks

Spec == Init /\ [][Next]_vars

\* C2: the factor graph is append-only. Whatever the operation, the factor
\* sequence before it is a prefix of the factor sequence after it: no factor
\* is removed, reordered or changed.
C2_AppendOnly ==
    [][/\ Len(factor_graph') >= Len(factor_graph)
       /\ SubSeq(factor_graph', 1, Len(factor_graph)) = factor_graph]_vars

C2_Witness ==
    /\ last.op = "detectLandmarks"
    /\ Len(last.accepted) >= 1
    /\ last.optimizes = 1
    /\ last.ret = "ok"
    /\ Len(factor_graph) >= 4

\* The factors other than priors, in insertion order.
NonPriorFactors == SelectSeq(factor_graph, LAMBDA f : f.kind # "Prior")

\* C3: the factor graph and the transform graph are in lock-step. There are as
\* many transform edges as non-prior factors, and the i-th edge joins the same
\* ordered pair of symbols as the i-th non-prior factor.
C3_LockStep ==
    /\ Len(transform_graph.edges) = Len(NonPriorFactors)
    /\ \A i \in 1..Len(NonPriorFactors) :
        /\ transform_graph.edges[i].from = NonPriorFactors[i].s1
        /\ transform_graph.edges[i].to = NonPriorFactors[i].s2

C3_Witness ==
    /\ Len(transform_graph.edges) >= 3
    /\ \E i, j \in 1..Len(NonPriorFactors) :
        /\ NonPriorFactors[i].kind = "Between"
        /\ NonPriorFactors[j].kind = "Landmark"
        /\ transform_graph.edges[j].to.chr = landmark_key

\* An estimate optimize() reads is missing: a pose index in 0..pose_idx or a
\* landmark index in 0..landmark_idx-1 has no node, or a node without the item.
MissingEstimate == FirstMissing(Self) # 0

\* What optimize() may write: the items of the nodes and the stored marginals.
EstimatesUnchanged ==
    /\ transform_graph' = transform_graph
    /\ marginals' = marginals

\* C4: when an estimate is missing (no node, or a node without its pose or
\* landmark item), optimize() returns normally without calling the solver and
\* leaves estimates, covariances, marginals, factor graph and counters unchanged.
C4_MissingEstimateReturns ==
    [][(last'.op = "optimize" /\ MissingEstimate) =>
         /\ last'.ret = "returned"
         /\ ~last'.solver
         /\ EstimatesUnchanged
         /\ UNCHANGED <<factor_graph, pose_idx, landmark_idx>>]_vars

\* C5: optimize() writes no partial state. A call that does not end normally
\* after a full solve (missing estimate, solver failure, failure during the
\* write-back) leaves every estimate, every covariance and the stored
\* marginals as they were.
C5_NoPartialState ==
    [][(last'.op = "optimize" /\ ~(last'.ret = "ok" /\ last'.solver)) =>
         EstimatesUnchanged]_vars

C5_Witness ==
    /\ last.op = "optimize"
    /\ last.ret = "threw"
    /\ last.sol = "marginals_fail"
    /\ marginals.set
    /\ landmark_idx >= 1

\* C6: after a successful optimize() every pose node the solver refined holds
\* the solver's value and the marginal covariance reported for its id, every
\* landmark node holds the solver's value, and the set of node ids is the one
\* before the call.
C6_StoredEqualsSolver ==
    [][(last'.op = "optimize" /\ last'.ret = "ok") =>
         /\ last'.solver
         /\ FrameIds(transform_graph') = FrameIds(transform_graph)
         /\ DOMAIN last'.result =
                {PoseSymbol(i) : i \in 0..pose_idx}
                    \cup {LandmarkSymbol(i) : i \in 0..(landmark_idx - 1)}
         /\ \A key \in DOMAIN last'.result :
                IF key.chr = pose_key
                THEN getItem(transform_graph', key, "pose").data =
                         TWC(last'.result[key].t, last'.result[key].q,
                             marginalCovariance(last'.sol, key))
                ELSE getItem(transform_graph', key, "landmark") = last'.result[key].t]_vars

C6_Witness ==
    /\ last.op = "optimize"
    /\ last.ret = "ok"
    /\ last.sol = "moved"
    /\ pose_idx >= 1
    /\ landmark_idx >= 1
    /\ getItem(transform_graph, PoseSymbol(1), "pose").data.t = MovedTranslation
    /\ getItem(transform_graph, LandmarkSymbol(0), "landmark") = MovedTranslation

\* The estimate a node stores when optimize() reads it. Within a data
\* association the poses are the ones before the call, and a landmark node
\* created by the call holds the global position of its source keypoint.
StoredEstimate(key) ==
    IF key.chr = pose_key
    THEN [t |-> getItem(transform_graph, key, "pose").data.t,
          q |-> getItem(transform_graph, key, "pose").data.q]
    ELSE IF containsItems(transform_graph, key, "landmark")
    THEN [t |-> getItem(transform_graph, key, "landmark"), q |-> 0]
    ELSE [t |-> (CHOOSE a \in {last'.accepted[k] : k \in 1..Len(last'.accepted)} :
                     a.landmark = key).global,
          q |-> 0]

\* C18: whenever optimize() reaches the solver, called directly or at the end
\* of a data association, the initial estimate it passes has exactly the keys
\* pose 0..pose_idx and landmark 0..landmark_idx-1, each mapped to the
\* estimate stored on that node at that moment.
C18_InitialEstimateKeys ==
    [][last'.solver =>
         /\ DOMAIN last'.initial =
                {Symbol(pose_key, i) : i \in 0..pose_idx'}
                    \cup {Symbol(landmark_key, i) : i \in 0..(landmark_idx' - 1)}
         /\ \A key \in DOMAIN last'.initial : last'.initial[key] = StoredEstimate(key)]_vars

C18_Witness ==
    /\ last.op = "detectLandmarks"
    /\ last.solver
    /\ pose_idx >= 1
    /\ landmark_idx >= 1
    /\ Symbol(landmark_key, 0) \in DOMAIN last.initial
    /\ Symbol(pose_key, 1) \in DOMAIN last.initial

-----------------------------------------------------------------------------
(* Data association on its own: two frames with keypoints, the second one a
   candidate of the first, and detectLandmarks() called with every answer the
   nearest-neighbour search can give. *)

MaxKeypoints == 5

Scores == 1..5

\* n keypoints in a row, one metre apart, at lateral offset y.
KeypointRow(n, y) == [i \in 1..n |-> <<100 * i, y, 0>>]

WideNNInputs ==
    {[pattern |-> "same", distances |-> d] :
        d \in UNION {[1..n -> Scores] : n \in 1..MaxKeypoints}}

\* The object after the calls that lead to an association of frame x0 with
\* its candidate x1: both poses at the origin, clouds pushed, keypoints
\* computed for x0 and x1.
Prepared(source_keypoints, target_keypoints) ==
    LET a1 == pushPointCloud(addPoseValue(init(Origin, FullNoise, "x", "l"), Origin)).s
        a2 == pushPointCloud(addPoseValue(
                  addDeltaPoseFactor(a1, [t |-> Zero3, q |-> 0], DiagNoise), Origin)).s
        a3 == computeKeypoints(a2, source_keypoints, 0).s
        a4 == addPoseValue(addDeltaPoseFactor(a3, [t |-> Zero3, q |-> 0], DiagNoise), Origin)
    IN  computeKeypoints(a4, target_keypoints, 0).s

InitAssoc ==
    \E n \in 1..MaxKeypoints, y \in {0, 300} :
        \E s \in {Prepared(KeypointRow(n, 0), KeypointRow(n, y))} :
            /\ pose_key = s.pose_key
            /\ landmark_key = s.landmark_key
            /\ pose_idx = s.pose_idx
            /\ landmark_idx = s.landmark_idx
            /\ factor_graph = s.factor_graph
            /\ transform_graph = s.transform_graph
            /\ marginals = s.marginals
            /\ frames_to_search = s.frames_to_search
            /\ candidates_to_search = s.candidates_to_search
            /\ frame_to_search_landmarks = s.frame_to_search_landmarks
            /\ candidate_to_search_landmarks = s.candidate_to_search_landmarks
            /\ last = Log("computeKeypoints", "ok")

\* One association per run: the frame to search is associated once.
DoAssociate ==
    /\ landmark_idx = 0
    /\ DetectLandmarksStep(WideNNInputs, {"moved"}, MaxKeypoints)

NextAssoc == DoAssociate

SpecAssoc == InitAssoc /\ [][NextAssoc]_vars

\* The correspondences of the last association that produced a landmark.
Accepted == {last.accepted[k] : k \in 1..Len(last.accepted)}

\* C7: data association enforces the Mahalanobis gate. A correspondence
\* produces a landmark only if its Mahalanobis distance squared under the added
\* covariance is below 7.81, the chi-square 5% value for 3 degrees of freedom.
C7_GateEnforced ==
    \A a \in Accepted :
        containsItems(transform_graph, a.landmark, "landmark") =>
            acceptPointDistance(a.num, a.den, 3)

\* The source keypoints the last association accepted against a target.
AcceptedAgainst(target) == {a.i : a \in {b \in Accepted : b.target = target}}

\* C10: median-score filtering. For each candidate the median is the middle
\* element of the sorted distances (the element of rank n/2 counted from zero:
\* 3 for [1,2,3,4,5]), and source keypoint i yields a landmark exactly when
\* its distance is at most the median (1 to 3 accepted, 4 and 5 rejected).
C10_MedianFilter ==
    \A c \in 1..Len(last.scores) :
        LET d == last.scores[c].distances
            n == Len(d)
            m == last.scores[c].median_score
        IN  /\ n > 0
            /\ \E i \in 1..n : d[i] = m
            /\ Cardinality({i \in 1..n : d[i] < m}) <= n \div 2
            /\ Cardinality({i \in 1..n : d[i] <= m}) >= (n \div 2) + 1
            /\ d = <<1, 2, 3, 4, 5>> => m = 3
            /\ AcceptedAgainst(last.scores[c].target) = {i \in 1..n : d[i] <= m}
            /\ \A a \in Accepted : containsItems(transform_graph, a.landmark, "landmark")

C10_Witness ==
    /\ last.op = "detectLandmarks"
    /\ Len(last.scores) = 1
    /\ last.scores[1].distances = <<1, 2, 3, 4, 5>>
    /\ last.scores[1].median_score = 3
    /\ AcceptedAgainst(PoseSymbol(1)) = {1, 2, 3}
    /\ landmark_idx = 3

\* C17: each accepted correspondence takes one new landmark index L, appends
\* exactly two landmark factors, (source pose -> L) with the source keypoint's
\* local offset and (candidate pose -> L) with the matched candidate keypoint's
\* local offset, both with the fixed landmark variance, and leaves a landmark
\* node for L whose estimate, when optimize() runs at the end of the
\* association, is the source keypoint's global position.
C17_AcceptanceInserts ==
    [][last'.op = "detectLandmarks" =>
         /\ landmark_idx' = landmark_idx + Len(last'.accepted)
         /\ Len(factor_graph') = Len(factor_graph) + 2 * Len(last'.accepted)
         /\ Len(last'.accepted) >= 1 => last'.solver
         /\ \A k \in 1..Len(last'.accepted) :
              LET a == last'.accepted[k]
                  L == Symbol(landmark_key, landmark_idx + k - 1)
                  p_source == getItem(transform_graph, a.source, "keypoints")[a.i]
                  p_target == getItem(transform_graph, a.target, "keypoints")[a.j]
              IN  /\ a.landmark = L
                  /\ factor_graph'[Len(factor_graph) + 2 * k - 1] =
                         Factor("Landmark", a.source, L, p_source, 0,
                                Noise("diag", landmark_var))
                  /\ factor_graph'[Len(factor_graph) + 2 * k] =
                         Factor("Landmark", a.target, L, p_target, 0,
                                Noise("diag", landmark_var))
                  /\ a.source = frame_to_search_landmarks
                  /\ a.global =
                         TransformPoint(getItem(transform_graph, a.source, "pose").data,
                                        p_source)
                  /\ containsItems(transform_graph', L, "landmark")
                  /\ last'.initial[L] = [t |-> a.global, q |-> 0]]_vars

C17_Witness ==
    /\ last.op = "detectLandmarks"
    /\ last.solver
    /\ Len(last.accepted) >= 2
    /\ landmark_idx = Len(last.accepted)
    /\ Len(factor_graph) = 3 + 2 * Len(last.accepted)
    /\ factor_graph[4].meas # factor_graph[5].meas
    /\ factor_graph[4].s2 = factor_graph[5].s2
    /\ factor_graph[6].s2 = Symbol(landmark_key, 1)

\* The translations a containment query is tried with: the corners displaced
\* from t by one centimetre more than the margin on every axis, and the
\* translations the nodes take.
QueryPoints(t) ==
    {VecAdd(t, <<sx * (MarginX + 1), sy * (MarginY + 1), sz * (MarginZ + 1)>>) :
        sx \in {-1, 1}, sy \in {-1, 1}, sz \in {-1, 1}}
        \cup {Zero3, MovedTranslation, Far.t}

Abs(x) == IF x < 0 THEN -x ELSE x

DisplacedBeyondMargins(p, t) == \A i \in 1..3 : Abs(p[i] - t[i]) > Margins[i]

\* C9: a pose node with a stored bounding box contains its own stored
\* translation, and contains no translation displaced from it by more than the
\* margin (0.05, 0.4, 1.0) on every axis.
C9_BoxAroundStoredTranslation ==
    \A f \in FrameIds(transform_graph) :
        containsItems(transform_graph, f, "pose") =>
            LET item == getItem(transform_graph, f, "pose")
            IN  item.box.set =>
                  /\ BoxContains(item.box, item.data.t)
                  /\ \A p \in QueryPoints(item.data.t) :
                        DisplacedBeyondMargins(p, item.data.t) => ~BoxContains(item.box, p)

-----------------------------------------------------------------------------
(* The candidate search on a long trajectory: frames arrive one after the
   other, each with its pose value and its cloud, and computeKeypoints() runs
   once per frame. The trajectory is long enough for the containers 89 and 90. *)

MaxTrajectory == 91

\* The lengths the run starts from.
TrajectoryStarts == {89}

\* The frames that lie far from the others.
FarFrames == {{}, {20}}

PoseAt(n, far) == IF n \in far THEN Far ELSE Origin

\* Frame n is received: for n > 0 the between-factor from frame n-1, then the
\* pose value and the cloud, then the keypoints and candidates of frame n-1.
ReceiveFrame(s, n, far) ==
    IF n = 0
    THEN pushPointCloud(addPoseValue(s, PoseAt(0, far))).s
    ELSE computeKeypoints(
             pushPointCloud(addPoseValue(
                 addDeltaPoseFactor(s, [t |-> Zero3, q |-> 0], DiagNoise),
                 PoseAt(n, far))).s,
             KeypointRow(1, 0), 0).s

\* The object after the frames 0..n were received.
Trajectory(n, far) ==
    ForRange(LAMBDA s, i : ReceiveFrame(s, i, far), init(Origin, FullNoise, "x", "l"), 0, n)

InitFrames ==
    \E n \in TrajectoryStarts, far \in FarFrames :
        \E s \in {Trajectory(n, far)} :
            /\ pose_key = s.pose_key
            /\ landmark_key = s.landmark_key
            /\ pose_idx = s.pose_idx
            /\ landmark_idx = s.landmark_idx
            /\ factor_graph = s.factor_graph
            /\ transform_graph = s.transform_graph
            /\ marginals = s.marginals
            /\ frames_to_search = s.frames_to_search
            /\ candidates_to_search = s.candidates_to_search
            /\ frame_to_search_landmarks = s.frame_to_search_landmarks
            /\ candidate_to_search_landmarks = s.candidate_to_search_landmarks
            /\ last = Log("computeKeypoints", "ok")

DoNextFrame == AddDeltaPoseFactorStep(DeltaInputs, {DiagNoise}, MaxTrajectory)

DoNextPoseValue == AddPoseValueStep(WidePoseInputs)

NextFrames ==
    \/ DoNextFrame
    \/ DoNextPoseValue
    \/ DoPushPointCloud
    \/ DoComputeKeypoints

SpecFrames == InitFrames /\ [][NextFrames]_vars

\* The handles of a candidate list.
Handles(list) == {list[k] : k \in 1..Len(list)}

\* The containers tried: the first frame and the newest three.
Containers == {PoseSymbol(i) : i \in {0} \cup {j \in 0..pose_idx : j >= pose_idx - 2}}

\* C8: for every container, the candidate list of containsFrames(container)
\* never holds the container itself, and two calls on the same graph state and
\* container give the same list in the same order.
C8_IrreflexiveDeterministic ==
    \A container \in Containers :
        \A first \in {containsFrames(Self, container, g) : g \in GarbageIndex} :
            \A second \in {containsFrames(Self, container, g) : g \in GarbageIndex} :
                (first.ret = "ok" /\ second.ret = "ok") =>
                    /\ container \notin Handles(first.list)
                    /\ first.list = second.list

\* computeKeypoints() has just searched the candidates of its container, the
\* node before the newest one.
SearchedContainer ==
    /\ last.op = "computeKeypoints" /\ last.ret = "ok"
    /\ pose_idx > 0
    /\ last.frame = PoseSymbol(pose_idx - 1)
    /\ containsItems(transform_graph, last.frame, "cloud")

\* The pose symbols other than the container that contains() admits, in
\* increasing index order.
ContainedFrames(container) ==
    SelectSeq([k \in 1..(pose_idx + 1) |-> PoseSymbol(k - 1)],
              LAMBDA q : q # container /\ contains(Self, container, q).value)

\* C15: containsFrames(container) returns exactly the pose indices i in
\* 0..pose_idx, i # container, for which contains(container, i) holds, in
\* strictly increasing order and each once, for every container index, 89 and
\* 90 included.
C15_ExactlyTheContainedFrames ==
    SearchedContainer => candidates_to_search = ContainedFrames(last.frame)

\* C19: a candidate is flagged as a long-range candidate iff the absolute
\* difference between the container's index and its own is greater than 10,
\* whether its index is below or above the container's, and the flag leaves
\* the candidate list as it is.
C19_FlaggedIffFartherThanTen ==
    SearchedContainer =>
        \A g \in GarbageIndex :
            LET r == containsFrames(Self, last.frame, g)
            IN  r.ret = "ok" =>
                  Handles(r.flagged) =
                      {q \in Handles(r.list) \ {NullHandle} :
                           Abs(last.frame.idx - q.idx) > 10}

\* C26: containsFrames never uses a symbol handle after it was moved into the
\* candidate list: the scan of a container reads no emptied handle, at the
\* distance check or at the band check, and every entry of the list it leaves
\* is a non-empty handle to a pose symbol.
C26_NoUseAfterMove ==
    /\ \A k \in 1..Len(candidates_to_search) :
           /\ candidates_to_search[k] # NullHandle
           /\ candidates_to_search[k].chr = pose_key
    /\ SearchedContainer =>
           \A g \in GarbageIndex : ~containsFrames(Self, last.frame, g).ub

-----------------------------------------------------------------------------
(* The chain of between-pose insertions: a fresh instance that only receives
   addDeltaPoseFactor calls, through the overloads taking a variance vector
   and through the overloads taking a covariance. *)

DoAddDeltaPoseFactorVar == AddDeltaPoseFactorStep(WideDeltaInputs, {DiagNoise}, MaxDelta)

DoAddDeltaPoseFactorCov == AddDeltaPoseFactorStep(WideDeltaInputs, {FullNoise}, MaxDelta)

NextDelta ==
    \/ DoAddDeltaPoseFactorVar
    \/ DoAddDeltaPoseFactorCov

SpecDelta == Init /\ [][NextDelta]_vars

\* The pose indices the factors of a graph refer to.
PoseIndicesOf(fg) ==
    {fg[k].s1.idx : k \in {j \in 1..Len(fg) : fg[j].s1.chr = pose_key}}
        \cup {fg[k].s2.idx : k \in {j \in 1..Len(fg) : fg[j].s2.chr = pose_key}}

\* C1: starting from one prior on pose 0, the k-th addDeltaPoseFactor call
\* appends the between-factor (k-1 -> k) and nothing else, pose_idx is the
\* number of calls made, and the pose indices the factors refer to are exactly
\* 0..pose_idx: none skipped, none used for two new poses.
C1_DeltaChain ==
    /\ pose_idx = Len(factor_graph) - 1
    /\ factor_graph[1].kind = "Prior"
    /\ factor_graph[1].s1 = PoseSymbol(0)
    /\ \A k \in 1..pose_idx :
        /\ factor_graph[k + 1].kind = "Between"
        /\ factor_graph[k + 1].s1 = PoseSymbol(k - 1)
        /\ factor_graph[k + 1].s2 = PoseSymbol(k)
    /\ PoseIndicesOf(factor_graph) = 0..pose_idx

C1_Witness ==
    /\ pose_idx = 3
    /\ Len(factor_graph) = 4
    /\ factor_graph[2].noise.form # factor_graph[4].noise.form

-----------------------------------------------------------------------------
(* Landmark allocation: a short trajectory whose finalized frames carry
   keypoints, then new frames, addBearingRangeFactor, addLandmarkFactor and
   detectLandmarks in any order. *)

MaxAllocated == 4

MaxLandmarkFrames == 2

\* The lengths the run starts from.
LandmarkStarts == {1, 3}

InitLandmarks ==
    \E n \in LandmarkStarts :
        \E s \in {Trajectory(n, {})} :
            /\ pose_key = s.pose_key
            /\ landmark_key = s.landmark_key
            /\ pose_idx = s.pose_idx
            /\ landmark_idx = s.landmark_idx
            /\ factor_graph = s.factor_graph
            /\ transform_graph = s.transform_graph
            /\ marginals = s.marginals
            /\ frames_to_search = s.frames_to_search
            /\ candidates_to_search = s.candidates_to_search
            /\ frame_to_search_landmarks = s.frame_to_search_landmarks
            /\ candidate_to_search_landmarks = s.candidate_to_search_landmarks
            /\ last = Log("computeKeypoints", "ok")

DoAllocateBearingRange ==
    /\ Alive /\ landmark_idx < MaxAllocated
    /\ Apply(addBearingRangeFactor(Self, PoseSymbol(pose_idx), 1, 200, <<1, 2>>))
    /\ last' = Log("call", "ok")

DoAllocateLandmark ==
    /\ Alive /\ landmark_idx < MaxAllocated
    /\ \E m \in LandmarkInputs :
        /\ Apply(addLandmarkFactor(Self, PoseSymbol(pose_idx), m, landmark_var))
        /\ last' = Log("call", "ok")

DoAllocateByAssociation == DetectLandmarksStep(NNInputs, {"fail", "moved"}, MaxAllocated)

DoAddFrameFactor == AddDeltaPoseFactorStep(DeltaInputs, {DiagNoise}, MaxLandmarkFrames)

NextLandmarks ==
    \/ DoAddFrameFactor
    \/ DoAddPoseValue
    \/ DoPushPointCloud
    \/ DoComputeKeypoints
    \/ DoAllocateBearingRange
    \/ DoAllocateLandmark
    \/ DoAllocateByAssociation

SpecLandmarks == InitLandmarks /\ [][NextLandmarks]_vars

\* The candidates of a list that carry keypoints and descriptors.
WithFeatures(frames) ==
    {frames[k] : k \in {j \in 1..Len(frames) :
        /\ containsItems(transform_graph, frames[j], "keypoints")
        /\ containsItems(transform_graph, frames[j], "descriptors")}}

\* C11: in one data-association run optimize() is invoked once if a landmark
\* was accepted and not at all otherwise, and the one invocation comes after
\* the last candidate: every candidate with features was matched, and every
\* correspondence of the run was computed from the source pose as it was
\* before the run, which no optimize() had rewritten in between.
C11_OptimizeOnceAtEnd ==
    [][last'.op = "detectLandmarks" =>
         /\ last'.optimizes = (IF Len(last'.accepted) >= 1 THEN 1 ELSE 0)
         /\ Len(last'.accepted) >= 1 =>
                {last'.scores[k].target : k \in 1..Len(last'.scores)}
                    = WithFeatures(frames_to_search)
         /\ \A k \in 1..Len(last'.accepted) :
                last'.accepted[k].global =
                    TransformPoint(
                        getItem(transform_graph, last'.accepted[k].source, "pose").data,
                        getItem(transform_graph, last'.accepted[k].source, "keypoints")
                            [last'.accepted[k].i])]_vars

C11_Witness ==
    /\ last.op = "detectLandmarks"
    /\ last.optimizes = 1
    /\ last.solver
    /\ last.sol = "moved"
    /\ Len(last.scores) >= 2
    /\ \E a, b \in Accepted : a.target # b.target

\* The landmark indices the factors of a graph refer to.
LandmarkIndicesOf(fg) ==
    {fg[k].s2.idx : k \in {j \in 1..Len(fg) : fg[j].s2.chr = landmark_key}}

\* C13: landmark indices are allocated 0, 1, 2, ... with no gap and no reuse,
\* whatever the order of addBearingRangeFactor, addLandmarkFactor and accepted
\* correspondences: the factors a step appends refer to exactly the indices
\* from the old landmark_idx up to the new one, the k-th acceptance of a run
\* takes the k-th of them, and the indices the factors refer to are exactly
\* 0..landmark_idx-1.
C13_LandmarkIndicesDense ==
    [][/\ LandmarkIndicesOf(SubSeq(factor_graph', Len(factor_graph) + 1, Len(factor_graph')))
              = landmark_idx..(landmark_idx' - 1)
       /\ LandmarkIndicesOf(factor_graph') = 0..(landmark_idx' - 1)
       /\ \A k \in 1..Len(last'.accepted) :
              last'.accepted[k].landmark = Symbol(landmark_key, landmark_idx + k - 1)]_vars

C13_Witness ==
    /\ last.op = "detectLandmarks"
    /\ Len(last.accepted) >= 2
    /\ last.accepted[1].landmark.idx >= 2
    /\ \E k \in 1..Len(factor_graph) : factor_graph[k].kind = "BearingRange"
    /\ \E k \in 1..Len(factor_graph) :
           /\ factor_graph[k].kind = "Landmark"
           /\ factor_graph[k].s1 # last.accepted[1].source
           /\ factor_graph[k].s1 # last.accepted[1].target
           /\ factor_graph[k].s2.idx < last.accepted[1].landmark.idx
    /\ landmark_idx = MaxAllocated

\* C29: a finalized pose node is the source of data association at most once:
\* a detectLandmarks call that follows another detectLandmarks call, with no
\* computeKeypoints in between to store a new container, appends no landmark
\* factor and allocates no landmark index.
C29_SourceUsedOnce ==
    [][(last.op = "detectLandmarks" /\ last'.op = "detectLandmarks") =>
         /\ factor_graph' = factor_graph
         /\ landmark_idx' = landmark_idx]_vars

-----------------------------------------------------------------------------
(* The accessors next to the calls that build the graph: every read of a node
   that may not be there yet. *)

\* A read leaves the object as it is.
Read(op, o) ==
    /\ Alive
    /\ last' = [Log(op, o.ret) EXCEPT !.frame = o.frame]
    /\ UNCHANGED <<pose_key, landmark_key, pose_idx, landmark_idx, factor_graph,
                   transform_graph, marginals, frames_to_search, candidates_to_search,
                   frame_to_search_landmarks, candidate_to_search_landmarks>>

DoGetLastPoseValueAndId == Read("getLastPoseValueAndId", getLastPoseValueAndId(Self))

DoGetTransformPose ==
    \E i \in 0..MaxPose : Read("getTransformPose", getTransformPose(Self, PoseSymbol(i)))

DoGetRbsPose ==
    \E i \in 0..MaxPose : Read("getRbsPose", getRbsPose(Self, PoseSymbol(i)))

DoGetPointCloud ==
    \E i \in 0..MaxPose : Read("getPointCloud", getPointCloud(Self, PoseSymbol(i)))

NextAccess ==
    \/ DoAddDeltaPoseFactor
    \/ DoAddPoseValue
    \/ DoInsertPoseValue
    \/ DoInsertLandmarkValue
    \/ DoAddLandmarkFactor
    \/ DoOptimize
    \/ DoPushPointCloud
    \/ DoComputeKeypoints
    \/ DoDetectLandmarks
    \/ DoGetLastPoseValueAndId
    \/ DoGetTransformPose
    \/ DoGetRbsPose
    \/ DoGetPointCloud

SpecAccess == Init /\ [][NextAccess]_vars

\* The lookup a call starts with fails: the node is missing, or it has no item
\* of the type the call reads.
LookupFailsIn(op, frame) ==
    CASE op = "getLastPoseValueAndId" ->
            getItemStatus(transform_graph, PoseSymbol(pose_idx), "pose") # "ok"
      [] op \in {"getTransformPose", "getRbsPose"} ->
            getItemStatus(transform_graph, frame, "pose") # "ok"
      [] op = "getPointCloud" ->
            getItemStatus(transform_graph, frame, "cloud") # "ok"
      [] op = "computeKeypoints" ->
            /\ pose_idx > 0
            /\ \/ getItemStatus(transform_graph, PoseSymbol(pose_idx - 1), "pose") # "ok"
               \/ getItemStatus(transform_graph, PoseSymbol(pose_idx), "pose") # "ok"
      [] op = "optimize" -> MissingEstimate
      [] OTHER -> FALSE

\* C12: a failed lookup (no node, or a node without the item) is recovered
\* inside every public operation: the call returns early with a default or
\* empty value, the object unchanged, and nothing escapes to the caller.
C12_LookupsRecovered ==
    [][LookupFailsIn(last'.op, last'.frame) =>
         /\ last'.ret = "returned"
         /\ transform_graph' = transform_graph]_vars

-----------------------------------------------------------------------------
(* The candidate search on a short trajectory: the poses are added at the
   origin and optimize() moves the ones it finds. *)

MaxSearchPose == 3

DoSearchFrameFactor == AddDeltaPoseFactorStep(DeltaInputs, {DiagNoise}, MaxSearchPose)

DoSearchOptimize == OptimizeStep({"moved"})

\* contains() asked about the first two pose nodes, either way round.
DoContains ==
    /\ Alive
    /\ \E i \in 0..1 :
        \E o \in {contains(Self, PoseSymbol(i), PoseSymbol(1 - i))} :
            /\ last' = [Log("contains", o.ret) EXCEPT
                           !.frame = PoseSymbol(i), !.query = PoseSymbol(1 - i),
                           !.value = o.value]
            /\ UNCHANGED <<pose_key, landmark_key, pose_idx, landmark_idx, factor_graph,
                           transform_graph, marginals, frames_to_search,
                           candidates_to_search, frame_to_search_landmarks,
                           candidate_to_search_landmarks>>

NextSearch ==
    \/ DoContains
    \/ DoSearchFrameFactor
    \/ DoAddPoseValue
    \/ DoPushPointCloud
    \/ DoComputeKeypoints
    \/ DoSearchOptimize

SpecSearch == Init /\ [][NextSearch]_vars

\* The pose symbols whose node holds a pose estimate.
PoseNodes(tg) ==
    {f \in FrameIds(tg) : f.chr = pose_key /\ containsItems(tg, f, "pose")}

\* The pose estimate and the box of a pose node.
PoseOf(tg, f) == getItem(tg, f, "pose").data

BoxAt(tg, f) == getItem(tg, f, "pose").box

\* C14: the box computeAlignedBoundingBox stores on node n-1 (n = pose_idx)
\* spans the segment between the two poses: it contains node n-1's translation
\* and node n's translation.
C14_BoxSpansBothPoses ==
    [][(/\ last'.op = "computeKeypoints"
        /\ pose_idx > 0
        /\ PoseSymbol(pose_idx - 1) \in PoseNodes(transform_graph)
        /\ PoseSymbol(pose_idx) \in PoseNodes(transform_graph)) =>
         /\ BoxAt(transform_graph', PoseSymbol(pose_idx - 1)).set
         /\ BoxContains(BoxAt(transform_graph', PoseSymbol(pose_idx - 1)),
                        PoseOf(transform_graph, PoseSymbol(pose_idx - 1)).t)
         /\ BoxContains(BoxAt(transform_graph', PoseSymbol(pose_idx - 1)),
                        PoseOf(transform_graph, PoseSymbol(pose_idx)).t)]_vars

\* The containment policy, from the boxes and translations of the two nodes.
ContainmentPolicy(c, q) ==
    IF c.idx > q.idx
    THEN \/ BoxContains(BoxAt(transform_graph, c), PoseOf(transform_graph, q).t)
         \/ /\ BoxAt(transform_graph, q).set
            /\ BoxContainsCenter(BoxAt(transform_graph, c), BoxAt(transform_graph, q))
    ELSE BoxContains(BoxAt(transform_graph, c), PoseOf(transform_graph, q).t)

\* The query's translation lies outside the container's box and the centre of
\* the query's box inside.
CentreOnly(c, q) ==
    /\ BoxAt(transform_graph, c).set /\ BoxAt(transform_graph, q).set
    /\ ~BoxContains(BoxAt(transform_graph, c), PoseOf(transform_graph, q).t)
    /\ BoxContainsCenter(BoxAt(transform_graph, c), BoxAt(transform_graph, q))

\* C16: contains(container, query) follows the asymmetric policy. With the
\* container's index the greater one the result is true iff the container's
\* box contains the query's translation or the centre of the query's box;
\* otherwise it is true iff the container's box contains the query's
\* translation. The candidates computeKeypoints() stores for its container
\* are the nodes the policy admits.
C16_AsymmetricPolicy ==
    /\ (last.op = "contains" /\ last.ret = "ok") =>
           (last.value <=> ContainmentPolicy(last.frame, last.query))
    /\ \A c \in PoseNodes(transform_graph), q \in PoseNodes(transform_graph) :
          (c # q /\ BoxAt(transform_graph, c).set) =>
              /\ (c.idx < q.idx \/ BoxAt(transform_graph, q).set
                    \/ BoxContains(BoxAt(transform_graph, c), PoseOf(transform_graph, q).t))
                     => contains(Self, c, q).ret = "ok"
              /\ contains(Self, c, q).ret = "ok"
                     => (contains(Self, c, q).value <=> ContainmentPolicy(c, q))
    /\ (/\ last.op = "computeKeypoints" /\ last.ret = "ok"
        /\ pose_idx > 0
        /\ last.frame = PoseSymbol(pose_idx - 1)
        /\ containsItems(transform_graph, last.frame, "cloud")) =>
           Handles(candidates_to_search) =
               {q \in PoseNodes(transform_graph) \ {last.frame} :
                    ContainmentPolicy(last.frame, q)}

\* contains(x1, x0) was answered true on the centre of x0's box alone, in a
\* state where contains(x0, x1) is false although the centre of x1's box lies
\* inside x0's box.
C16_Witness ==
    /\ last.op = "contains" /\ last.ret = "ok"
    /\ last.frame = PoseSymbol(1) /\ last.query = PoseSymbol(0)
    /\ last.value
    /\ CentreOnly(PoseSymbol(1), PoseSymbol(0))
    /\ CentreOnly(PoseSymbol(0), PoseSymbol(1))
    /\ contains(Self, PoseSymbol(0), PoseSymbol(1)) = [ret |-> "ok", value |-> FALSE]

\* C20: a box is stored on pose node k only when pose node k+1 exists. Only
\* computeKeypoints() changes a box, through computeAlignedBoundingBox: it
\* changes nothing while pose_idx is 0 and otherwise the box of node
\* pose_idx-1 only, so the newest pose node never has a box.
C20_BoxOnlyOnFinalizedNode ==
    [][/\ \A f \in PoseNodes(transform_graph') :
              BoxAt(transform_graph', f).set =>
                  /\ f.idx < pose_idx'
                  /\ Symbol(pose_key, f.idx + 1) \in PoseNodes(transform_graph')
       /\ \A f \in PoseNodes(transform_graph) :
              BoxAt(transform_graph', f) # BoxAt(transform_graph, f) =>
                  /\ last'.op = "computeKeypoints"
                  /\ pose_idx > 0
                  /\ f = PoseSymbol(pose_idx - 1)
       /\ (last'.op = "computeKeypoints" /\ pose_idx = 0) =>
              /\ transform_graph' = transform_graph
              /\ candidate_to_search_landmarks' = candidate_to_search_landmarks
              /\ frame_to_search_landmarks' = frame_to_search_landmarks]_vars

C20_Witness ==
    /\ last.op = "computeKeypoints"
    /\ pose_idx = MaxSearchPose
    /\ \A i \in 0..pose_idx : PoseSymbol(i) \in PoseNodes(transform_graph)
    /\ \A i \in 0..(pose_idx - 1) : BoxAt(transform_graph, PoseSymbol(i)).set
    /\ ~BoxAt(transform_graph, PoseSymbol(pose_idx)).set

-----------------------------------------------------------------------------
(* Further properties of the calls of Spec *)

\* The keypoint and descriptor sets of every frame of a graph.
Features(tg) ==
    [f \in FrameIds(tg) |-> <<Items(tg, f, "keypoints"), Items(tg, f, "descriptors")>>]

\* computeKeypoints has no usable frame: there is one pose only, or the frame
\* before the newest has no point cloud.
NoUsableFrame ==
    \/ pose_idx = 0
    \/ ~containsItems(transform_graph, PoseSymbol(pose_idx - 1), "cloud")

\* C30: when computeKeypoints finds no usable frame (pose_idx is 0, or node
\* pose_idx-1 has no point cloud), frames_to_search, candidates_to_search,
\* frame_to_search_landmarks and candidate_to_search_landmarks are left as they
\* were and no node gains a keypoint or descriptor item.
C30_NoUsableFrameNoEffect ==
    [][(last'.op = "computeKeypoints" /\ NoUsableFrame) =>
         /\ UNCHANGED <<frames_to_search, candidates_to_search,
                        frame_to_search_landmarks, candidate_to_search_landmarks>>
         /\ Features(transform_graph') = Features(transform_graph)]_vars

C30_Witness ==
    /\ last.op = "computeKeypoints" /\ last.ret = "ok"
    /\ pose_idx = 2
    /\ NoUsableFrame
    /\ getItem(transform_graph, PoseSymbol(1), "pose").box.set
    /\ candidate_to_search_landmarks = PoseSymbol(0)
    /\ candidates_to_search # frames_to_search

LastOf(r) == r[Len(r)]

\* The symbols a caller may name: those of existing nodes and those one index
\* beyond the newest pose and landmark.
NameableSymbols ==
    {PoseSymbol(i) : i \in 0..(pose_idx + 1)} \cup {LandmarkSymbol(i) : i \in 0..(landmark_idx + 1)}

\* The object r differs from the current one by one appended factor and one
\* appended edge, and by the empty nodes the edge's symbols needed.
OneFactorOneEdge(r) ==
    /\ Len(r.factor_graph) = Len(factor_graph) + 1
    /\ SubSeq(r.factor_graph, 1, Len(factor_graph)) = factor_graph
    /\ Len(r.transform_graph.edges) = Len(transform_graph.edges) + 1
    /\ SubSeq(r.transform_graph.edges, 1, Len(transform_graph.edges)) = transform_graph.edges
    /\ r.pose_idx = pose_idx /\ r.landmark_idx = landmark_idx
    /\ r.pose_key = pose_key /\ r.landmark_key = landmark_key
    /\ r.marginals = marginals
    /\ FrameIds(transform_graph) \subseteq FrameIds(r.transform_graph)
    /\ \A f \in FrameIds(r.transform_graph) :
           r.transform_graph.frames[f] =
               IF HasFrame(transform_graph, f) THEN transform_graph.frames[f] ELSE EmptyFrame
    /\ r.frames_to_search = frames_to_search
    /\ r.candidates_to_search = candidates_to_search
    /\ r.frame_to_search_landmarks = frame_to_search_landmarks
    /\ r.candidate_to_search_landmarks = candidate_to_search_landmarks

\* C23: insertPoseFactor, insertBearingRangeFactor and insertLandmarkFactor
\* take any pair of symbols, also ones whose index is beyond pose_idx or
\* landmark_idx and has no node yet: in every reachable state each of them
\* appends exactly one factor and one transform edge and leaves pose_idx,
\* landmark_idx, the items of every node and the landmark-search state as they
\* were.
C23_ForwardReferencesAccepted ==
    \A a \in NameableSymbols, b \in NameableSymbols :
        /\ \A delta \in DeltaInputs, noise \in {DiagNoise, FullNoise} :
               \A r \in {insertPoseFactor(Self, a, b, delta, noise)} :
                   /\ LastOf(r.factor_graph) = Factor("Between", a, b, delta.t, delta.q, noise)
                   /\ OneFactorOneEdge(r)
        /\ \A r \in {insertBearingRangeFactor(Self, a, b, 1, 200, <<1, 2>>)} :
               /\ LastOf(r.factor_graph).s1 = a /\ LastOf(r.factor_graph).s2 = b
               /\ OneFactorOneEdge(r)
        /\ \A m \in LandmarkInputs :
               \A r \in {insertLandmarkFactor(Self, a, b, m, landmark_var)} :
                   /\ LastOf(r.factor_graph).s1 = a /\ LastOf(r.factor_graph).s2 = b
                   /\ OneFactorOneEdge(r)

\* A factor and an edge to pose MaxPose + 1 were inserted while the pose
\* counter is below it: the node exists and holds nothing.
C23_Witness ==
    /\ pose_idx < MaxPose + 1
    /\ \E k \in 1..Len(factor_graph) :
           /\ factor_graph[k].kind = "Between"
           /\ factor_graph[k].s2 = PoseSymbol(MaxPose + 1)
    /\ \E k \in 1..Len(transform_graph.edges) :
           transform_graph.edges[k].to = PoseSymbol(MaxPose + 1)
    /\ HasFrame(transform_graph, PoseSymbol(MaxPose + 1))
    /\ transform_graph.frames[PoseSymbol(MaxPose + 1)] = EmptyFrame

-----------------------------------------------------------------------------
(* Landmark factors and landmark values added in pairs: on a fresh instance,
   addLandmarkFactor, addBearingRangeFactor and addLandmarkValue in any order,
   with new poses and optimize() in between. *)

MaxPairs == 2

\* The number of landmark values stored in a graph.
RECURSIVE LandmarkValues(_, _)
LandmarkValues(tg, frames) ==
    IF frames = {} THEN 0
    ELSE LET f == CHOOSE x \in frames : TRUE
         IN  Len(Items(tg, f, "landmark")) + LandmarkValues(tg, frames \ {f})

StoredLandmarkValues == LandmarkValues(transform_graph, FrameIds(transform_graph))

DoPairedLandmarkFactor ==
    /\ Alive /\ landmark_idx < MaxPairs
    /\ \E m \in LandmarkInputs :
        /\ Apply(addLandmarkFactor(Self, PoseSymbol(pose_idx), m, landmark_var))
        /\ last' = Log("addLandmarkFactor", "ok")

DoPairedBearingRangeFactor ==
    /\ Alive /\ landmark_idx < MaxPairs
    /\ Apply(addBearingRangeFactor(Self, PoseSymbol(pose_idx), 1, 200, <<1, 2>>))
    /\ last' = Log("addBearingRangeFactor", "ok")

DoPairedLandmarkValue ==
    /\ Alive /\ StoredLandmarkValues < MaxPairs
    /\ \E m \in LandmarkInputs :
        /\ Apply(addLandmarkValue(Self, m))
        /\ last' = Log("addLandmarkValue", "ok")

NextPairs ==
    \/ DoPairedLandmarkFactor
    \/ DoPairedBearingRangeFactor
    \/ DoPairedLandmarkValue
    \/ DoAddDeltaPoseFactor
    \/ DoAddPoseValue
    \/ DoOptimize

SpecPairs == Init /\ [][NextPairs]_vars

\* C27: a landmark value added with addLandmarkValue is stored on the landmark
\* symbol that its paired addLandmarkFactor or addBearingRangeFactor call
\* refers to, whichever of the two calls comes first. With as many values as
\* factors so far, the factor added next refers to the symbol of the value
\* added next; so a value added while one factor waits for its value goes on
\* that factor's symbol, and a factor added while one value waits for its
\* factor refers to that value's symbol.
C27_ValueOnFactorSymbol ==
    [][/\ (/\ last'.op = "addLandmarkValue"
            /\ landmark_idx = StoredLandmarkValues + 1) =>
               /\ containsItems(transform_graph', LastOf(factor_graph).s2, "landmark")
               /\ LastOf(factor_graph).s2 = LandmarkSymbol(landmark_idx - 1)
       /\ (/\ last'.op \in {"addLandmarkFactor", "addBearingRangeFactor"}
            /\ StoredLandmarkValues = landmark_idx + 1) =>
               containsItems(transform_graph', LastOf(factor_graph').s2, "landmark")]_vars

-----------------------------------------------------------------------------
(* What a node accumulates: pose values added and inserted more than once on
   the same node, and computeKeypoints() called with or without a new pose in
   between, next to point-cloud pushes, optimize() and the pose accessors. *)

MaxStored == 2

\* The newest pose index of these runs.
MaxStoredPose == 1

StoredWithin(s) ==
    \A f \in FrameIds(s.transform_graph) :
        /\ Len(Items(s.transform_graph, f, "pose")) <= MaxStored
        /\ Len(Items(s.transform_graph, f, "keypoints")) <= MaxStored

\* A write of a pose value: the call, the node it names and the value given.
Written(op, frame, twc) ==
    [Log(op, IF HasFrame(transform_graph, frame) \/ op = "addPoseValue"
             THEN "ok" ELSE "returned")
        EXCEPT !.frame = frame, !.value = twc]

DoStoreInsertPoseValue ==
    /\ Alive
    /\ \E i \in 0..MaxStoredPose, twc \in WidePoseInputs :
        \E s \in {insertPoseValue(Self, PoseSymbol(i), twc)} :
            /\ StoredWithin(s)
            /\ Apply(s)
            /\ last' = Written("insertPoseValue", PoseSymbol(i), twc)

DoStoreAddPoseValue ==
    /\ Alive
    /\ \E twc \in WidePoseInputs :
        \E s \in {addPoseValue(Self, twc)} :
            /\ StoredWithin(s)
            /\ Apply(s)
            /\ last' = Written("addPoseValue", PoseSymbol(pose_idx), twc)

DoStoreComputeKeypoints ==
    /\ Alive
    /\ \E keypoints \in KeypointInputs, g \in GarbageIndex, abort \in BOOLEAN :
        \E o \in {computeKeypoints(Self, keypoints, g)} :
            /\ StoredWithin(o.s)
            /\ abort => o.ub
            /\ Apply(o.s)
            /\ last' = [Log("computeKeypoints", IF abort THEN "crashed" ELSE o.ret) EXCEPT
                           !.frame = o.s.candidate_to_search_landmarks]

DoStoreOptimize == OptimizeStep({"moved"})

DoStoreFrameFactor == AddDeltaPoseFactorStep(DeltaInputs, {DiagNoise}, MaxStoredPose)

NextStore ==
    \/ DoStoreFrameFactor
    \/ DoStoreAddPoseValue
    \/ DoStoreInsertPoseValue
    \/ DoPushPointCloud
    \/ DoStoreComputeKeypoints
    \/ DoStoreOptimize
    \/ DoGetLastPoseValueAndId

SpecStore == Init /\ [][NextStore]_vars

\* C21: in every reachable state each pose node holds at most one keypoint set
\* and at most one descriptor set, whatever the sequence of pose additions,
\* point-cloud pushes and computeKeypoints calls, computeKeypoints called again
\* without a new pose in between included.
C21_OneFeatureSetPerNode ==
    \A f \in FrameIds(transform_graph) :
        /\ Len(Items(transform_graph, f, "keypoints")) <= 1
        /\ Len(Items(transform_graph, f, "descriptors")) <= 1

\* C28: each pose node holds at most one pose estimate, and after a write of a
\* pose value by insertPoseValue or addPoseValue the pose accessors
\* getTransformPose, getRbsPose, getLastPoseValueAndId (for the newest node)
\* and the initial estimate of optimize() give the value just written.
C28_LatestValueReturned ==
    /\ \A f \in FrameIds(transform_graph) : Len(Items(transform_graph, f, "pose")) <= 1
    /\ (last.op \in {"insertPoseValue", "addPoseValue"} /\ last.ret = "ok") =>
           /\ getTransformPose(Self, last.frame).value = last.value
           /\ getRbsPose(Self, last.frame).value = last.value
           /\ last.frame = PoseSymbol(pose_idx) =>
                  getLastPoseValueAndId(Self).value = last.value
           /\ (FirstMissing(Self) = 0 /\ last.frame.idx <= pose_idx) =>
                  InitialEstimate(Self)[last.frame] = [t |-> last.value.t, q |-> last.value.q]

-----------------------------------------------------------------------------
(* The key characters: instances constructed with other pose and landmark
   keys than the default ones, the character of the invalid symbol among
   them. *)

PoseKeys == {"x", "u"}

LandmarkKeys == {"l", "u"}

InitKeys ==
    \E pk \in PoseKeys, lk \in LandmarkKeys :
        \E s \in {init(Origin, FullNoise, pk, lk)} :
            /\ pose_key = s.pose_key
            /\ landmark_key = s.landmark_key
            /\ pose_idx = s.pose_idx
            /\ landmark_idx = s.landmark_idx
            /\ factor_graph = s.factor_graph
            /\ transform_graph = s.transform_graph
            /\ marginals = s.marginals
            /\ frames_to_search = s.frames_to_search
            /\ candidates_to_search = s.candidates_to_search
            /\ frame_to_search_landmarks = s.frame_to_search_landmarks
            /\ candidate_to_search_landmarks = s.candidate_to_search_landmarks
            /\ last = Log("init", "ok")

NextKeys ==
    \/ DoAddDeltaPoseFactor
    \/ DoAddPoseValue
    \/ DoPushPointCloud
    \/ DoComputeKeypoints
    \/ DoAddLandmarkFactor
    \/ DoDetectLandmarks

SpecKeys == InitKeys /\ [][NextKeys]_vars

\* C22: the invalid symbol equals no pose symbol and no landmark symbol the
\* instance has allocated, for every pose_key and landmark_key the constructors
\* take; so computeKeypoints treats no real pose node as the invalid frame: a
\* call that ends normally with a cloud on node pose_idx-1 has searched the
\* candidates of that node.
C22_InvalidNeverAllocated ==
    /\ \A i \in 0..pose_idx : PoseSymbol(i) # invalid_symbol
    /\ \A i \in 0..(landmark_idx - 1) : LandmarkSymbol(i) # invalid_symbol
    /\ (/\ last.op = "computeKeypoints" /\ last.ret = "ok"
        /\ pose_idx > 0
        /\ containsItems(transform_graph, PoseSymbol(pose_idx - 1), "cloud")) =>
           candidates_to_search = ContainedFrames(PoseSymbol(pose_idx - 1))

-----------------------------------------------------------------------------
(* Data association over nodes with and without features: a trajectory in
   which the detector found no keypoint on some of the finalized frames, then
   detectLandmarks next to new frames. *)

MaxSkipPose == 4

\* The lengths the run starts from, and the frames left without keypoints.
SkipStarts == {3}

BareFrames == {{}, {0}, {1}, {2}, {0, 2}}

\* Frame n is received, the detector finding nothing on the frames in bare.
ReceiveFrameSparse(s, n, bare) ==
    IF n = 0
    THEN pushPointCloud(addPoseValue(s, Origin)).s
    ELSE computeKeypoints(
             pushPointCloud(addPoseValue(
                 addDeltaPoseFactor(s, [t |-> Zero3, q |-> 0], DiagNoise),
                 Origin)).s,
             IF (n - 1) \in bare THEN <<>> ELSE KeypointRow(1, 0), 0).s

TrajectorySparse(n, bare) ==
    ForRange(LAMBDA s, i : ReceiveFrameSparse(s, i, bare),
             init(Origin, FullNoise, "x", "l"), 0, n)

InitSkip ==
    \E n \in SkipStarts, bare \in BareFrames :
        \E s \in {TrajectorySparse(n, bare)} :
            /\ pose_key = s.pose_key
            /\ landmark_key = s.landmark_key
            /\ pose_idx = s.pose_idx
            /\ landmark_idx = s.landmark_idx
            /\ factor_graph = s.factor_graph
            /\ transform_graph = s.transform_graph
            /\ marginals = s.marginals
            /\ frames_to_search = s.frames_to_search
            /\ candidates_to_search = s.candidates_to_search
            /\ frame_to_search_landmarks = s.frame_to_search_landmarks
            /\ candidate_to_search_landmarks = s.candidate_to_search_landmarks
            /\ last = Log("computeKeypoints", "ok")

DoSkipFrameFactor == AddDeltaPoseFactorStep(DeltaInputs, {DiagNoise}, MaxSkipPose)

NextSkip ==
    \/ DoSkipFrameFactor
    \/ DoAddPoseValue
    \/ DoPushPointCloud
    \/ DoComputeKeypoints
    \/ DoAllocateByAssociation

SpecSkip == InitSkip /\ [][NextSkip]_vars

\* The node carries a keypoint set and a descriptor set.
HasFeatures(f) ==
    /\ containsItems(transform_graph, f, "keypoints")
    /\ containsItems(transform_graph, f, "descriptors")

\* C24: data association skips nodes without features. When the source node
\* lacks a keypoint set or a descriptor set, the run adds no factor and no
\* landmark and does not call optimize(); a candidate lacking a keypoint set
\* or a descriptor set contributes no factor and no landmark, and every other
\* candidate of the list is still matched.
C24_SkipsNodesWithoutFeatures ==
    [][last'.op = "detectLandmarks" =>
         /\ ~HasFeatures(frame_to_search_landmarks) =>
                /\ factor_graph' = factor_graph
                /\ landmark_idx' = landmark_idx
                /\ transform_graph' = transform_graph
                /\ last'.optimizes = 0 /\ ~last'.solver
         /\ \A k \in 1..Len(last'.accepted) : HasFeatures(last'.accepted[k].target)
         /\ \A k \in (Len(factor_graph) + 1)..Len(factor_graph') :
                \/ factor_graph'[k].s1 = frame_to_search_landmarks
                \/ HasFeatures(factor_graph'[k].s1)
         /\ (HasFeatures(frame_to_search_landmarks) /\ last'.ret # "crashed") =>
                {last'.scores[k].target : k \in 1..Len(last'.scores)}
                    = WithFeatures(frames_to_search)]_vars

\* A run whose source has features, whose list has a candidate without
\* features in front of one with features, and which found a landmark on the
\* latter.
C24_Witness ==
    /\ last.op = "detectLandmarks" /\ last.ret = "ok"
    /\ HasFeatures(frame_to_search_landmarks)
    /\ \E j, k \in 1..Len(frames_to_search) :
           /\ j < k
           /\ ~HasFeatures(frames_to_search[j])
           /\ \E a \in Accepted : a.target = frames_to_search[k]

-----------------------------------------------------------------------------
(* The hand-over from candidate search to data association: frames received
   with or without a pose value, computeKeypoints() and detectLandmarks() in
   any order. *)

MaxHandOverPose == 4

DoHandOverFrameFactor == AddDeltaPoseFactorStep(DeltaInputs, {DiagNoise}, MaxHandOverPose)

NextHandOver ==
    \/ DoHandOverFrameFactor
    \/ DoAddPoseValue
    \/ DoPushPointCloud
    \/ DoComputeKeypoints
    \/ DoDetectLandmarks

SpecHandOver == Init /\ [][NextHandOver]_vars

\* The source of data association and its list, and the container of the
\* last candidate search and its list.
ToSearch == <<frame_to_search_landmarks, frames_to_search>>
Proposed == <<candidate_to_search_landmarks, candidates_to_search>>

\* C25: data association for a node uses the candidate list proposed for that
\* node. The proposed pair changes only to a container together with the list
\* containsFrames produced for it; the pair to search changes only by taking
\* the proposed pair whole; so whenever frame_to_search_landmarks is valid,
\* frames_to_search is the list produced for that frame, which never names the
\* frame itself. detectLandmarks inserts nothing while frame_to_search_landmarks
\* is invalid, and it becomes valid only when a container had been stored
\* before, that is at the second storing computeKeypoints at the earliest.
C25_ListOfTheSameFrame ==
    [][/\ Proposed' # Proposed =>
              \E g \in GarbageIndex :
                  /\ containsFrames(Self', candidate_to_search_landmarks', g).ret = "ok"
                  /\ containsFrames(Self', candidate_to_search_landmarks', g).list
                         = candidates_to_search'
       /\ ToSearch' # ToSearch => ToSearch' = Proposed
       /\ frame_to_search_landmarks' # invalid_symbol =>
              frame_to_search_landmarks' \notin Handles(frames_to_search')
       /\ (last'.op = "detectLandmarks" /\ frame_to_search_landmarks = invalid_symbol) =>
              /\ factor_graph' = factor_graph
              /\ landmark_idx' = landmark_idx
              /\ transform_graph' = transform_graph]_vars
====
